---- MODULE Spec2Model ----
(***************************************************************************)
(* Gateway supervision and host-based routing of the deployment wrapper   *)
(* (src/lib/gateway.js and the routing middleware / upgrade handler of    *)
(* server.js), as a state machine.                                        *)
(*                                                                        *)
(* Node's event loop runs every handler to its next `await`; an action of *)
(* this module is one such run-to-completion segment.  A settled promise  *)
(* resumes its awaiters in the same turn, so the continuation of every    *)
(* awaiter is part of the action that settles the promise.                *)
(***************************************************************************)
EXTENDS Integers, Sequences, FiniteSets, TLC

\* ------------------------------------------------------------------ bounds
NumCallers == 2     \* concurrently open requests (handlers in flight)
MaxTimers  == 1     \* crash-restart timers pending or running at once
MaxSpawns  == 2     \* gateway processes spawned in one behaviour of Spec
CrashSpawns == 7    \* gateway processes spawned in one behaviour of SpecCrash
MaxRestarts == 1    \* manual restarts in one behaviour
MaxChunks == 2      \* chunks of one backend response
MaxSignals == 2     \* termination signals delivered to the wrapper
NumDashCallers == 3 \* concurrent callers of startDashboard and stopDashboard
MaxDashSpawns == 3  \* dashboard processes spawned in one behaviour
MaxParams == 3      \* parameters in the query string of an upgrade request
MaxParts == 5       \* pieces of a request path given to serveStaticSite

\* ------------------------------------------------------ program constants
MAX_CRASH_RESTARTS == 5
CRASH_WINDOW_MS    == 300000
READY_TIMEOUT_MS   == 300000
BACKOFF_BASE_MS    == 2000
BACKOFF_CAP_MS     == 30000
RESTART_SLEEP_MS   == 1500

WrapperToken == "tok"      \* OPENCLAW_GATEWAY_TOKEN, resolved once at load
OtherToken   == "old"      \* any other value of gateway.auth.token

Callers  == 1..NumCallers
TimerIds == (NumCallers + 1)..(NumCallers + MaxTimers)
Tasks    == Callers \cup TimerIds
Pids     == 1..(MaxSpawns + CrashSpawns)

VARIABLES
  cfgFile,           \* the config file: "absent", or the gateway.auth.token in it
  gatewayProc,       \* 0 (null) or the pid of the registered child process
  gatewayStarting,   \* 0 (null) or the caller whose call created the promise
  lastGatewayToken,  \* "none" (null) or the token of the last spawn
  crashCount,
  crashAge,          \* Date.now() - lastCrashTime, in ms, cut at the window + 1
  proc,              \* pid -> "unborn" | "alive" | "termed" (SIGTERM sent) | "dead"
  pc,                \* task -> position
  kind,              \* caller -> the handler that is running ("none" when idle)
  awaiting,          \* caller -> the owner of the promise it awaits (0: none)
  syncOk,            \* task -> syncResult.code === 0
  remaining,         \* task -> ms until its timer, sleep or readiness deadline
  req,               \* caller -> the request it is handling
  clientDomain,      \* getClientDomain(): the apex domain, <<>> when none is set
  devRunning,        \* getDevServerProcess() is set
  prodSSR,           \* isProdSSR()
  prodRunning,       \* getProdServerProcess() is set
  devDist,           \* DEV_DIR/dist exists
  fwd,               \* the POST with a JSON body on its way through the proxy
  px,                \* the HTTP exchange the proxy is forwarding
  sd,                \* the shutdown: signals received, saves, children, exit
  tk,                \* the gateway token: environment, gateway.token, module value
  fsys,              \* the files of the site directories, the placeholder page
  dash,              \* the dashboard manager: handle, markers, callers, processes
  rt,                \* what is recorded of the run: the routing decisions taken,
                     \* the processes that answered a readiness probe
  \* history, for the properties only
  ev,                \* what the last step did that the outside can observe
  burstSpawns,       \* processes spawned for the pending ensureGatewayRunning calls
  attOutcomes,       \* outcomes of the calls that overlapped the attempt in flight
  crashTotal,        \* crashes counted since the wrapper started
  firstAge,          \* ms since the first of them, cut at the window + 1
  exhausted,         \* the crash ceiling was exceeded with no start under way or
                     \* scheduled, and no operator asked for a start since
  \* bounds
  cap                \* the bounds in force in this behaviour, restarts left

vars == <<cfgFile, gatewayProc, gatewayStarting, lastGatewayToken, crashCount,
          crashAge, proc, pc, kind, awaiting, syncOk, remaining, req,
          clientDomain, devRunning, prodSSR, prodRunning, devDist, fwd, px, sd, tk, fsys, dash, rt,
          ev,
          burstSpawns, attOutcomes, crashTotal, firstAge, exhausted,
          cap>>

\* the variables the gateway supervisor never writes
siteVars == <<clientDomain, devRunning, prodSSR, prodRunning, devDist>>

\* the variables the gateway supervisor and the routing of a request never write
frameVars == <<siteVars, fwd, px, sd, tk, fsys, dash>>

\* ----------------------------------------------------------------- helpers
Min(a, b) == IF a < b THEN a ELSE b

RECURSIVE Pow2(_)
Pow2(n) == IF n = 0 THEN 1 ELSE 2 * Pow2(n - 1)

\* config.js:14-35 isConfigured: the config file exists
IsConfigured == cfgFile # "absent"

\* the next pid
SpawnCount == Cardinality({p \in Pids : proc[p] # "unborn"})
NextPid    == SpawnCount + 1
Live       == {p \in Pids : proc[p] \in {"alive", "termed"}}

\* the tasks waiting for a deadline: restart timer, sleep, readiness timeout
Waiting == {t \in Tasks : pc[t] \in {"pending", "ready", "sleep"}}

\* the deadline of task t is the next one to pass
Earliest(t) == \A u \in Waiting : remaining[u] >= remaining[t]

\* an age after d more ms; ages beyond the crash window are not told apart
Aged(a, d) == Min(a + d, CRASH_WINDOW_MS + 1)

\* the clock advances to the deadline of task t
PassTo(t) ==
  /\ Earliest(t)
  /\ remaining' = [u \in Tasks |-> IF u \in Waiting \ {t}
                                   THEN remaining[u] - remaining[t] ELSE 0]
  /\ crashAge' = Aged(crashAge, remaining[t])
  /\ firstAge' = Aged(firstAge, remaining[t])

\* a faulty delay: the doubling is not capped
BackoffDelay_Uncapped(n) == BACKOFF_BASE_MS * Pow2(n - 1)

\* gateway.js:305
BackoffDelay(n) == Min(BACKOFF_BASE_MS * Pow2(n - 1), BACKOFF_CAP_MS)

\* ------------------------------------------------- requests and responses
\* "/"
P_root == <<"/">>
\* "/setup"
P_setup == <<"/", "s", "e", "t", "u", "p">>
\* "/setup/healthz"
P_setupHealthz ==
  <<"/", "s", "e", "t", "u", "p", "/", "h", "e", "a", "l", "t", "h", "z">>
\* "/setupx"
P_setupx == <<"/", "s", "e", "t", "u", "p", "x">>
\* "/status"
P_status == <<"/", "s", "t", "a", "t", "u", "s">>
\* "/api/rebuild"
P_rebuild == <<"/", "a", "p", "i", "/", "r", "e", "b", "u", "i", "l", "d">>
\* "/api/webhook/github"
P_webhook ==
  <<"/", "a", "p", "i", "/", "w", "e", "b", "h", "o", "o", "k", "/", "g",
  "i", "t", "h", "u", "b">>
\* "/openclaw"
P_openclaw == <<"/", "o", "p", "e", "n", "c", "l", "a", "w">>
\* "/openclaw/chat"
P_openclawChat ==
  <<"/", "o", "p", "e", "n", "c", "l", "a", "w", "/", "c", "h", "a", "t">>
\* "/api/model-settings/openai-codex/status"
P_codexStatus ==
  <<"/", "a", "p", "i", "/", "m", "o", "d", "e", "l", "-", "s", "e", "t",
  "t", "i", "n", "g", "s", "/", "o", "p", "e", "n", "a", "i", "-", "c",
  "o", "d", "e", "x", "/", "s", "t", "a", "t", "u", "s">>
\* "/llms.txt"
P_llms == <<"/", "l", "l", "m", "s", ".", "t", "x", "t">>
\* "/llms-full.txt"
P_llmsFull ==
  <<"/", "l", "l", "m", "s", "-", "f", "u", "l", "l", ".", "t", "x", "t">>
\* "/robots.txt"
P_robots == <<"/", "r", "o", "b", "o", "t", "s", ".", "t", "x", "t">>
\* "/about"
P_about == <<"/", "a", "b", "o", "u", "t">>

Paths == {P_root, P_setup, P_setupHealthz, P_setupx, P_status, P_rebuild,
          P_webhook, P_openclaw, P_openclawChat, P_codexStatus, P_llms,
          P_llmsFull, P_robots, P_about}

\* a faulty test: only the prefix itself passes
StartsWith_Exact(s, prefix) == s = prefix

\* String.prototype.startsWith
StartsWith(s, prefix) ==
  /\ Len(s) >= Len(prefix)
  /\ SubSeq(s, 1, Len(prefix)) = prefix

\* host names are sequences of labels; `sub.${clientDomain}` is Prefixed
Domain   == <<"client", "com">>
NoDomain == <<>>
Prefixed(sub, dom) == <<sub>> \o dom
Hosts == {Domain, Prefixed("www", Domain), Prefixed("dev", Domain),
          Prefixed("DEV", Domain), Prefixed("gerald", Domain),
          <<"app", "railway", "app">>}

\* String.prototype.toLowerCase, label by label
LowerLabel(l) == CASE l = "DEV" -> "dev" [] OTHER -> l
ToLowerCase(h) == [i \in 1..Len(h) |-> LowerLabel(h[i])]

NoReq == [ws |-> FALSE, method |-> "none", host |-> <<>>, path |-> <<>>]
HttpRequests == [ws : {FALSE}, method : {"GET", "POST"}, host : Hosts, path : Paths]
WsRequests   == [ws : {TRUE}, method : {"GET"}, host : Hosts, path : Paths]

\* a response: what the client got (kind, code), where the request was
\* forwarded (target), whether the proxy attached the gateway token (auth),
\* the directory static files were served from (dir), the file sent (file)
\* and X-Robots-Tag (robots)
Resp(k, code, target, auth, dir, robots) ==
  [kind |-> k, code |-> code, target |-> target, auth |-> auth, dir |-> dir,
   robots |-> robots, file |-> <<>>]
NoResp     == Resp("none", 0, "none", FALSE, "none", FALSE)
Json(code) == Resp("json", code, "none", FALSE, "none", FALSE)
Text(code) == Resp("text", code, "none", FALSE, "none", FALSE)
Destroyed  == Resp("destroy", 0, "none", FALSE, "none", FALSE)

\* a faulty hook: the token goes on every proxied request
ProxyReqAuth_Always(tag) == TRUE

\* server.js:2367-2373 proxy.on("proxyReq"): the bearer token goes on every
\* request whose route tag is not 'dashboard'
ProxyReqAuth(tag) == tag # "dashboard"

\* proxy.web(req, res, {target}) with req._proxyTarget = tag
ProxyWeb(target, tag, robots) ==
  Resp("proxy", 0, target, ProxyReqAuth(tag), "none", robots)

\* server.js:2880-2891 proxy.ws to the gateway: the token as query parameter
\* and as bearer header
ProxyWsGateway == Resp("proxyws", 0, "gateway", TRUE, "none", FALSE)
\* server.js:2855, 2895-2897 proxy.ws to the dev server or the dashboard
ProxyWsPlain(target) == Resp("proxyws", 0, target, FALSE, "none", FALSE)

\* a faulty handler: the catch block logs and falls through to the proxy call
AfterEnsure_FallThrough(k, out) ==
  CASE k = "http"    -> ProxyWeb("gateway", "none", FALSE)
    [] k = "ws"      -> IF out = "rejected" THEN Destroyed ELSE ProxyWsGateway
    [] k = "start"   -> IF out = "rejected" THEN Json(500) ELSE Json(200)
    [] k = "restart" -> IF out = "rejected" THEN Json(500) ELSE Json(200)
    [] OTHER         -> NoResp

\* what a handler that awaited ensureGatewayRunning does with its outcome:
\* server.js:2715-2719, 2731-2743 (http), 2870-2891 (ws), 1955-1959 (start),
\* 1970-1974 (restart)
AfterEnsure(k, out) ==
  CASE k = "http"    -> IF out = "rejected" THEN Text(503)
                        ELSE ProxyWeb("gateway", "none", FALSE)
    [] k = "ws"      -> IF out = "rejected" THEN Destroyed ELSE ProxyWsGateway
    [] k = "start"   -> IF out = "rejected" THEN Json(500) ELSE Json(200)
    [] k = "restart" -> IF out = "rejected" THEN Json(500) ELSE Json(200)
    [] OTHER         -> NoResp

\* ------------------------------------------------------------ JSON bodies
\* A JSON value: t is "obj", "arr", "str" or "num"; an object has keys and,
\* in the same order, kids; an array has kids; a string has s; a number n.
\* Text is a sequence of characters.
JVal(t, n, str, keys, kids) ==
  [t |-> t, n |-> n, s |-> str, keys |-> keys, kids |-> kids]
JNum(n)          == JVal("num", n, <<>>, <<>>, <<>>)
JStr(str)        == JVal("str", 0, str, <<>>, <<>>)
JArr(kids)       == JVal("arr", 0, <<>>, <<>>, kids)
JObj(keys, kids) == JVal("obj", 0, <<>>, keys, kids)

\* the characters of strings and keys; "W" stands for a character that takes
\* two bytes in UTF-8
Chars == {"a", "k", "W"}
Digits == {"0", "1", "2", "3", "4", "5", "6", "7", "8", "9"}
DigitOf(n) ==
  CASE n = 0 -> "0" [] n = 1 -> "1" [] n = 2 -> "2" [] n = 3 -> "3"
    [] n = 4 -> "4" [] n = 5 -> "5" [] n = 6 -> "6" [] n = 7 -> "7"
    [] n = 8 -> "8" [] OTHER -> "9"
NumOf(ch) == CHOOSE n \in 0..9 : DigitOf(n) = ch

\* Buffer.byteLength(text), UTF-8
RECURSIVE ByteLength(_)
ByteLength(text) ==
  IF text = <<>> THEN 0
  ELSE (IF Head(text) = "W" THEN 2 ELSE 1) + ByteLength(Tail(text))

\* JSON.stringify of a value that JSON.parse returned
RECURSIVE Stringify(_)
RECURSIVE StringifyItems(_, _)
RECURSIVE StringifyMembers(_, _, _)
Stringify(v) ==
  CASE v.t = "num" -> <<DigitOf(v.n)>>
    [] v.t = "str" -> <<"\"">> \o v.s \o <<"\"">>
    [] v.t = "arr" -> <<"[">> \o StringifyItems(v.kids, 1) \o <<"]">>
    [] OTHER       -> <<"{">> \o StringifyMembers(v.keys, v.kids, 1) \o <<"}">>
StringifyItems(kids, i) ==
  IF i > Len(kids) THEN <<>>
  ELSE (IF i > 1 THEN <<",">> ELSE <<>>) \o Stringify(kids[i])
         \o StringifyItems(kids, i + 1)
StringifyMembers(keys, kids, i) ==
  IF i > Len(kids) THEN <<>>
  ELSE (IF i > 1 THEN <<",">> ELSE <<>>) \o <<"\"">> \o keys[i] \o <<"\"", ":">>
         \o Stringify(kids[i]) \o StringifyMembers(keys, kids, i + 1)

\* JSON.parse, by recursive descent over the text: the result of each parser
\* is [ok, v, at], `at` being the position after what it read
NoVal == JNum(0)
Failed == [ok |-> FALSE, v |-> NoVal, at |-> 0]
Parsed(v, at) == [ok |-> TRUE, v |-> v, at |-> at]
At(text, i) == IF i <= Len(text) THEN text[i] ELSE "eof"

RECURSIVE SkipWs(_, _)
SkipWs(text, i) == IF At(text, i) = " " THEN SkipWs(text, i + 1) ELSE i

\* the position of the quote closing the string whose characters start at i
RECURSIVE StringEnd(_, _)
StringEnd(text, i) ==
  IF At(text, i) = "\"" THEN i
  ELSE IF At(text, i) \in Chars THEN StringEnd(text, i + 1)
  ELSE 0

RECURSIVE ParseValue(_, _)
RECURSIVE ParseItems(_, _, _)
RECURSIVE ParseMembers(_, _, _, _)
ParseValue(text, i) ==
  LET ch == At(text, i)
  IN CASE ch \in Digits -> Parsed(JNum(NumOf(ch)), i + 1)
       [] ch = "\"" ->
            LET e == StringEnd(text, i + 1)
            IN IF e = 0 THEN Failed
               ELSE Parsed(JStr(SubSeq(text, i + 1, e - 1)), e + 1)
       [] ch = "[" ->
            LET j == SkipWs(text, i + 1)
            IN IF At(text, j) = "]" THEN Parsed(JArr(<<>>), j + 1)
               ELSE ParseItems(text, j, <<>>)
       [] ch = "{" ->
            LET j == SkipWs(text, i + 1)
            IN IF At(text, j) = "}" THEN Parsed(JObj(<<>>, <<>>), j + 1)
               ELSE ParseMembers(text, j, <<>>, <<>>)
       [] OTHER -> Failed
\* items of an array, the next one starting at i
ParseItems(text, i, kids) ==
  LET r == ParseValue(text, i)
      j == SkipWs(text, r.at)
  IN IF ~r.ok THEN Failed
     ELSE IF At(text, j) = "," THEN
       ParseItems(text, SkipWs(text, j + 1), Append(kids, r.v))
     ELSE IF At(text, j) = "]" THEN Parsed(JArr(Append(kids, r.v)), j + 1)
     ELSE Failed
\* members of an object, the next key starting at i
ParseMembers(text, i, keys, kids) ==
  LET e == IF At(text, i) = "\"" THEN StringEnd(text, i + 1) ELSE 0
      c == SkipWs(text, e + 1)
      r == ParseValue(text, SkipWs(text, c + 1))
      j == SkipWs(text, r.at)
      key == SubSeq(text, i + 1, e - 1)
  IN IF e = 0 \/ At(text, c) # ":" THEN Failed
     ELSE IF ~r.ok THEN Failed
     ELSE IF At(text, j) = "," THEN
       ParseMembers(text, SkipWs(text, j + 1), Append(keys, key),
                    Append(kids, r.v))
     ELSE IF At(text, j) = "}" THEN
       Parsed(JObj(Append(keys, key), Append(kids, r.v)), j + 1)
     ELSE Failed

\* JSON.parse(text): one value with white space around it
JsonParse(text) ==
  LET r == ParseValue(text, SkipWs(text, 1))
  IN IF r.ok /\ SkipWs(text, r.at) = Len(text) + 1 THEN r ELSE Failed

\* the JSON documents clients send
JsonLeaves == {JNum(1), JNum(7), JStr(<<"a">>), JStr(<<"W", "k">>)}
JsonKeys == {<<"a">>, <<"W">>}
JsonFlat ==
  {JArr(<<>>), JObj(<<>>, <<>>)}
    \cup {JArr(<<x>>) : x \in JsonLeaves}
    \cup {JArr(<<JNum(1), x>>) : x \in JsonLeaves}
    \cup {JObj(<<key>>, <<x>>) : key \in JsonKeys, x \in JsonLeaves}
    \cup {JObj(<<<<"a">>, <<"k">>>>, <<JNum(7), x>>) : x \in JsonLeaves}
JsonDocs ==
  JsonFlat \cup {JArr(<<x>>) : x \in JsonFlat}
           \cup {JObj(<<<<"k">>>>, <<x>>) : x \in JsonFlat}

\* the same document with white space around it
Padded(text) == <<" ">> \o text \o <<" ", " ">>

\* what arrives as the body of a POST with Content-Type application/json: the
\* documents, compact or padded, a scalar and a truncated text
RawBodies ==
  {Stringify(v) : v \in JsonDocs} \cup {Padded(Stringify(v)) : v \in JsonFlat}
    \cup {<<"1">>, <<"\"", "a", "\"">>, <<"{", "\"", "a", "\"", ":">>,
          <<"[", " ", "]">>, <<"{", " ", "\"", "a", "\"", " ", ":", " ", "1",
          " ", ",", " ", "\"", "k", "\"", ":", "[", "7", " ", "]", "}">>}

\* express.json in strict mode: only a text that starts, after white space,
\* with { or [ is handed to JSON.parse
StrictJson(text) == At(text, SkipWs(text, 1)) \in {"{", "["}

\* Object.keys(req.body).length > 0
HasKeys(v) == Len(v.kids) > 0

\* the route tags of proxied requests (req._proxyTarget; none for the gateway)
ProxyTags == {"none", "dashboard", "dev-server", "prod-server"}

NoFwd == [stage |-> "none", raw |-> <<>>, body |-> NoVal, tag |-> "none",
          auth |-> FALSE, written |-> <<>>, outLen |-> 0]

\* ------------------------------------------------------ proxied exchanges
\* the query string of an upgrade request: parameters in the order they are
\* written, each a name and a value ("" is the empty value)
ParamNames  == {"token", "session"}
ParamValues == {"", WrapperToken, OtherToken}
Params      == ParamNames \X ParamValues
Queries     == UNION {[1..n -> Params] : n \in 0..MaxParams}

\* a faulty test: a parameter with an empty value counts as absent
SearchParamsHas_NonEmpty(q, name) ==
  \E i \in 1..Len(q) : q[i][1] = name /\ q[i][2] # ""

\* URLSearchParams.prototype.has
SearchParamsHas(q, name) == \E i \in 1..Len(q) : q[i][1] = name

\* URLSearchParams.prototype.set: the first parameter of that name gets the
\* value and the others of that name are removed; without one it is appended
SearchParamsSet(q, name, value) ==
  IF SearchParamsHas(q, name)
  THEN LET first == CHOOSE i \in 1..Len(q) :
                      q[i][1] = name /\ \A j \in 1..(i - 1) : q[j][1] # name
       IN SelectSeq([i \in 1..Len(q) |->
                       IF i = first THEN <<name, value, "keep">>
                       ELSE IF q[i][1] = name THEN <<name, value, "drop">>
                       ELSE <<q[i][1], q[i][2], "keep">>],
                    LAMBDA x : x[3] = "keep")
  ELSE Append(q, <<name, value>>)

\* server.js:2881-2885 the query of the URL handed to proxy.ws
WsGatewayQuery(q) ==
  IF ~SearchParamsHas(q, "token")
  THEN SearchParamsSet(q, "token", WrapperToken)
  ELSE q

\* the content types of backend responses and, for HTML, the document: with
\* a <head> tag and no robots meta tag, without a <head> tag, with a robots
\* meta tag already
ContentTypes == {"text/html", "application/json"}
Documents    == {"head", "no-head", "has-robots"}

\* what the second proxyRes listener did to an exchange: the content type and
\* document of the backend, X-Robots-Tag forced on the backend's headers,
\* res.write and res.end replaced (buffered), the chunks held back, and
\* Content-Length recomputed
NoRewrite == [ctype |-> "none", doc |-> "none", robots |-> FALSE,
              buffered |-> FALSE, held |-> 0, relen |-> FALSE]

\* a faulty test: every response is taken for one of the dev server
DevRewriteApplies_Any(tag) == TRUE

\* server.js:2388 req._proxyTarget === 'dev-server'
DevRewriteApplies(tag) == tag = "dev-server"

\* server.js:2402-2421 the body the replaced res.end sends
InjectMeta(doc) == IF doc = "head" THEN "backend+meta" ELSE "backend"

\* an upgrade forwarded to the gateway: the query and the Authorization
\* header the client sent ("none": no header), and those the gateway gets
NoWs == [query |-> <<>>, auth |-> "none", outQuery |-> <<>>, outAuth |-> "none"]
\* the exchange being forwarded: the route tag, the status line the backend
\* sent (0: none yet), the chunks passed on, and of the client's response
\* whether its headers are sent, its status, its body and whether it ended
NoPx == [stage |-> "none", tag |-> "none", upstream |-> 0, chunks |-> 0,
         headersSent |-> FALSE, status |-> 0, body |-> "none",
         ended |-> FALSE, error |-> FALSE, ws |-> NoWs, dev |-> NoRewrite]

\* the status codes of backend responses
BackendStatus == {200, 404, 500}

\* -------------------------------------------------------------- site files
\* "index.html", "404.html", ".html", "/api/", "/_astro/"
F_index == <<"i", "n", "d", "e", "x", ".", "h", "t", "m", "l">>
F_404 == <<"4", "0", "4", ".", "h", "t", "m", "l">>
DotHtml == <<".", "h", "t", "m", "l">>
ApiPrefix == <<"/", "a", "p", "i", "/">>
AstroPrefix == <<"/", "_", "a", "s", "t", "r", "o", "/">>
\* "about.html", "about/index.html", "placeholder.html"
F_aboutHtml == <<"a", "b", "o", "u", "t">> \o DotHtml
F_aboutIndex == <<"a", "b", "o", "u", "t", "/">> \o F_index
F_placeholder ==
  <<"p", "l", "a", "c", "e", "h", "o", "l", "d", "e", "r">> \o DotHtml

\* the site directories: PRODUCTION_DIR, DEV_DIR/dist, DEV_DIR
SiteDirs == {"production", "dev/dist", "dev"}
SiteFileNames == {F_index, F_404, F_aboutHtml, F_aboutIndex}

\* every site directory holds an index.html and nothing else; the placeholder
\* page is there
PlainSites == [files |-> [d \in SiteDirs |-> {F_index}], placeholder |-> TRUE]

\* String.prototype.endsWith
EndsWith(text, suffix) ==
  /\ Len(text) >= Len(suffix)
  /\ SubSeq(text, Len(text) - Len(suffix) + 1, Len(text)) = suffix

\* path.extname(p) !== "": the last segment of p has a dot after its first
\* character
HasExtName(p) ==
  LET slashes == {i \in 1..Len(p) : p[i] = "/"}
      start == IF slashes = {} THEN 1
               ELSE (CHOOSE i \in slashes : \A j \in slashes : j <= i) + 1
  IN \E i \in (start + 1)..Len(p) : p[i] = "."

\* ----------------------------------------------------------- dashboard
\* dashboard.js:325-327 dashboardProcess (0: null), dashboardStarting and
\* dashboardStopping (0: null, else the caller that created the promise);
\* where each caller of startDashboard or stopDashboard stands; the promise a
\* caller awaits; the process a stop waits for; the dashboard processes;
\* the spawns of the start sequences that overlap the last one begun
DashCallers == 1..NumDashCallers
DashPids == 1..MaxDashSpawns
NoDash ==
  [proc |-> 0, starting |-> 0, stopping |-> 0,
   pc |-> [c \in DashCallers |-> "idle"],
   aw |-> [c \in DashCallers |-> 0],
   target |-> 0,
   procs |-> [p \in DashPids |-> "unborn"],
   burst |-> 0,
   ret |-> [c \in DashCallers |-> "none"]]

\* dashboard.js:702-721 how the health polling of a start sequence ends: GET
\* /api/health answered 2xx (705-711), GET / answered 2xx or another status
\* below 500 (713-718), or 30 rounds without either (721)
DashProbes == {"health-2xx", "root-2xx", "root-below-500", "unready"}

\* what the startDashboard calls that returned in the last step saw: the
\* promise of sequence c settled with outcome o for c and for the callers
\* that awaited it (549, 725); nobody returned
Returned(d, c, o) ==
  [x \in DashCallers |->
     IF x = c \/ (d.pc[x] = "waitStart" /\ d.aw[x] = c) THEN o ELSE "none"]
NoRet == [x \in DashCallers |-> "none"]
Ret(d, r) == [d EXCEPT !.ret = r]

\* the start sequences under way (the async function of dashboard.js:557)
DashSequences(d) == {c \in DashCallers : d.pc[c] \in {"setup", "health"}}

\* dashboard.js:557-559 callers `cs` create a start promise one after the
\* other, `last` being the last of them: each promise runs up to its first
\* await (setupWorkspace), the marker holds the last one created
BeginStart(d, cs, last) ==
  [d EXCEPT !.starting = last,
            !.pc = [c \in DashCallers |-> IF c \in cs THEN "setup" ELSE d.pc[c]],
            !.burst = IF DashSequences(d) = {} THEN 0 ELSE d.burst]

\* dashboard.js:724-728 the start promise of caller c settles: c resumes and
\* clears dashboardStarting, the callers awaiting that promise return
StartSettled(d, c) ==
  [d EXCEPT !.starting = 0,
            !.pc = [x \in DashCallers |->
                      IF x = c \/ (d.pc[x] = "waitStart" /\ d.aw[x] = c)
                      THEN "idle" ELSE d.pc[x]],
            !.aw = [x \in DashCallers |->
                      IF d.pc[x] = "waitStart" /\ d.aw[x] = c THEN 0
                      ELSE d.aw[x]]]

\* everything but the dashboard
notDash == <<cfgFile, gatewayProc, gatewayStarting, lastGatewayToken,
             crashCount, crashAge, proc, pc, kind, awaiting, syncOk,
             remaining, req, ev, burstSpawns, attOutcomes, crashTotal,
             firstAge, exhausted, cap, siteVars, fwd, px, sd, tk, fsys, rt>>

\* dashboard.js:544-559 startDashboard is called by c
StartDashboard(c) ==
  /\ dash.pc[c] = "idle"
  /\ dash' = IF dash.proc # 0 THEN Ret(dash, Returned(dash, c, "registered"))
             ELSE IF dash.starting # 0
             THEN Ret([dash EXCEPT !.pc[c] = "waitStart",
                                   !.aw[c] = dash.starting], NoRet)
             ELSE IF dash.stopping # 0
             THEN Ret([dash EXCEPT !.pc[c] = "waitStop"], NoRet)
             ELSE Ret(BeginStart(dash, {c}, c), NoRet)
  /\ UNCHANGED notDash

\* dashboard.js:558-700 the setup steps of the start promise of c are over:
\* without an installation the promise returns (621-631); the write of the
\* JWT secret file can throw (638-643), which rejects the promise; else a
\* process found on the port is killed (652-664) and the dashboard is spawned
\* and registered (666), and the health polling begins (702)
DashSetupDone(c) ==
  /\ dash.pc[c] = "setup"
  /\ \E installed \in BOOLEAN, stale \in BOOLEAN, thrown \in BOOLEAN :
       IF ~installed
       THEN dash' = Ret(StartSettled(dash, c), Returned(dash, c, "no-setup"))
       ELSE IF thrown
       THEN dash' = Ret(StartSettled(dash, c), Returned(dash, c, "thrown"))
       ELSE LET pid == Cardinality({p \in DashPids : dash.procs[p] # "unborn"}) + 1
            IN /\ pid \in DashPids
               /\ dash' = [dash EXCEPT
                    !.proc = pid,
                    !.procs = [p \in DashPids |->
                                 IF p = pid THEN "alive"
                                 ELSE IF stale /\ dash.procs[p] = "alive"
                                 THEN "killed" ELSE dash.procs[p]],
                    !.pc[c] = "health",
                    !.burst = dash.burst + 1,
                    !.ret = NoRet]
  /\ UNCHANGED notDash

\* dashboard.js:702-728 the health polling of the start promise of c ends,
\* ready or not
DashHealthDone(c) ==
  /\ dash.pc[c] = "health"
  /\ \E probe \in DashProbes :
       dash' = Ret(StartSettled(dash, c), Returned(dash, c, probe))
  /\ UNCHANGED notDash

\* dashboard.js:341-358 stopDashboard is called by c: without a registered
\* process the call returns (342); else it joins the stop in progress (343-347)
\* or clears the handle and sends SIGTERM before the first await
StopDashboard(c) ==
  /\ dash.pc[c] = "idle"
  /\ dash' = IF dash.proc = 0 THEN Ret(dash, Returned(dash, c, "stopped"))
             ELSE IF dash.stopping # 0
             THEN [dash EXCEPT !.pc[c] = "stopJoin", !.ret = NoRet]
             ELSE [dash EXCEPT !.stopping = c, !.target = dash.proc,
                               !.proc = 0,
                               !.procs[dash.proc] = "termed",
                               !.pc[c] = "stopping",
                               !.ret = NoRet]
  /\ UNCHANGED notDash

\* dashboard.js:353-366 the stop promise of c settles, by the close event of
\* the process (whose first listener, 697-700, clears the handle) or by the
\* 3 s timeout; c clears dashboardStopping, the callers of stopDashboard that
\* awaited the promise return, and the callers of startDashboard that awaited
\* it (553-556) go on to line 557, one after the other
StopSettled(c) ==
  /\ dash.pc[c] = "stopping"
  /\ \E closed \in BOOLEAN :
       LET waiters == {x \in DashCallers : dash.pc[x] = "waitStop"}
           d1 == [dash EXCEPT
                    !.ret = [x \in DashCallers |->
                               IF x = c \/ dash.pc[x] = "stopJoin"
                               THEN "stopped" ELSE "none"],
                    !.stopping = 0, !.target = 0,
                    !.proc = IF closed THEN 0 ELSE dash.proc,
                    !.procs[dash.target] = IF closed THEN "dead" ELSE @,
                    !.pc = [x \in DashCallers |->
                              IF x = c \/ dash.pc[x] = "stopJoin" THEN "idle"
                              ELSE dash.pc[x]]]
       IN IF waiters = {} THEN dash' = d1
          ELSE \E last \in waiters : dash' = BeginStart(d1, waiters, last)
  /\ UNCHANGED notDash

\* dashboard.js:697-700 the close event of a dashboard process no stop is
\* waiting for: the handle is cleared
DashClose(p) ==
  /\ dash.procs[p] \in {"alive", "termed", "killed"}
  /\ ~(dash.stopping # 0 /\ dash.target = p)
  /\ dash' = [dash EXCEPT !.procs[p] = "dead", !.proc = 0, !.ret = NoRet]
  /\ UNCHANGED notDash

\* ------------------------------------------------------------ gateway token
\* String.prototype.trim, for texts with blanks and line feeds
WhiteSpace == {" ", "\n"}
RECURSIVE TrimStart(_)
TrimStart(text) ==
  IF text # <<>> /\ Head(text) \in WhiteSpace THEN TrimStart(Tail(text))
  ELSE text
RECURSIVE TrimEnd(_)
TrimEnd(text) ==
  IF text # <<>> /\ text[Len(text)] \in WhiteSpace
  THEN TrimEnd(SubSeq(text, 1, Len(text) - 1))
  ELSE text
Trim(text) == TrimEnd(TrimStart(text))

\* values of the environment variable and contents of the token file
EnvTexts == {<<>>, <<" ", " ">>, <<"e", "1">>, <<" ", "e", "1", "\n">>,
             <<"e", " ", "2">>}
FileTexts == {<<>>, <<"\n">>, <<"f", "1", "\n">>, <<"f", "1">>,
              <<" ", "f", " ", "2", " ">>}
\* what crypto.randomBytes(32).toString("hex") gives
RandomTokens == {<<"r", "1">>, <<"r", "2">>}

\* the token before the module is loaded: the environment variable (envSet:
\* it is defined), the file gateway.token (readable: it can be read at load;
\* writable: it can be written), the random bytes to come; env0 and file0
\* keep what the environment variable and the file held before the load
TokenInputs ==
  [loaded : {FALSE}, token : {<<>>},
   envSet : {TRUE}, env : EnvTexts, env0 : {<<>>},
   readable : BOOLEAN, file : FileTexts, file0 : {<<>>},
   writable : BOOLEAN, random : RandomTokens, source : {"none"}]

\* a faulty resolution: the persisted file wins over the environment
ResolveGatewayToken_FileFirst(t) ==
  IF t.readable /\ Trim(t.file) # <<>>
  THEN [token |-> Trim(t.file), file |-> t.file, source |-> "file"]
  ELSE IF t.envSet /\ Trim(t.env) # <<>>
  THEN [token |-> Trim(t.env), file |-> t.file, source |-> "env"]
  ELSE [token |-> t.random, source |-> "generated",
        file |-> IF t.writable THEN t.random ELSE t.file]

\* config.js:46-85 resolveGatewayToken: the token it returns and the content
\* of the file gateway.token afterwards
ResolveGatewayToken(t) ==
  IF t.envSet /\ Trim(t.env) # <<>>
  THEN [token |-> Trim(t.env), file |-> t.file, source |-> "env"]
  ELSE IF t.readable /\ Trim(t.file) # <<>>
  THEN [token |-> Trim(t.file), file |-> t.file, source |-> "file"]
  ELSE [token |-> t.random, source |-> "generated",
        file |-> IF t.writable THEN t.random ELSE t.file]

\* the module is loaded and its token is the wrapper's
LoadedToken ==
  [loaded |-> TRUE, token |-> <<"e", "1">>, envSet |-> TRUE,
   env |-> <<"e", "1">>, env0 |-> <<"e", "1">>, readable |-> FALSE,
   file |-> <<>>, file0 |-> <<>>, writable |-> FALSE,
   random |-> <<"r", "1">>, source |-> "env"]

\* ------------------------------------------------------------------ shutdown
SignalIds == 1..MaxSignals

\* no signal received yet; repo: DEV_DIR is a git repository.  save[i] is the
\* position of the autoSaveDevChanges call made for the i-th signal
NoShutdown(repo) ==
  [repo |-> repo, sig |-> [i \in SignalIds |-> "none"],
   save |-> [i \in SignalIds |-> "none"], killed |-> FALSE, exited |-> FALSE]

\* the awaits of autoSaveDevChanges at which a call can be suspended
SaveAwaits == {"status", "add", "commit", "push"}

\* the calls of autoSaveDevChanges that are in progress
SavesInProgress == {i \in SignalIds : sd.save[i] \in SaveAwaits}

\* ----------------------------------------------------------- routing record
\* where a response sends the request: the backend of proxy.web, the static
\* files, the setup page; the 503 of server.js:2716, 2735-2738 is the answer
\* of a request routed to a gateway that did not come up
Target(x) ==
  CASE x.kind = "redirect" -> "redirect-to-setup"
    [] x.kind = "proxy" -> x.target
    [] x.kind = "static" -> "static"
    [] x.kind = "text" /\ x.code = 503 -> "gateway"
    [] OTHER -> "none"

\* what the routing middleware reads beside the request: isConfigured()
\* (server.js:2439, 2714, 2731), getClientDomain() (2444), isProdSSR() and
\* getProdServerProcess() (2668-2669), getDevServerProcess() (2693),
\* fs.existsSync(devDistDir) (2700)
GlobalState ==
  [configured |-> IsConfigured, domain |-> clientDomain, dev |-> devRunning,
   ssr |-> prodSSR, prod |-> prodRunning, dist |-> devDist]

\* nothing is recorded
NoLog == [on |-> FALSE, watch |-> FALSE, at |-> <<>>, log |-> {}, probed |-> {}]
\* recording of the routing decisions begins
EmptyLog == [NoLog EXCEPT !.on = TRUE, !.at = [c \in Callers |-> GlobalState]]
\* recording of the readiness probes begins
ProbeLog == [NoLog EXCEPT !.watch = TRUE]

\* the record of a step: a handler that suspends notes the global state it
\* was entered in; every HTTP response of the step is logged with its
\* request, the global state its handler was entered in, and its target;
\* when waitForGatewayReady returns true (gateway.js:36-59, 328) the
\* processes alive at that moment are noted as having answered a probe
Track ==
  LET woken == {c \in Callers : req[c] # NoReq /\ req'[c] = NoReq}
      entered == {c \in Callers : req[c] = NoReq /\ req'[c] # NoReq}
      Entry(r, g, x) == [host |-> r.host, path |-> r.path, state |-> g,
                         target |-> Target(x)]
      late == UNION {{Entry(req[c], rt.at[c], d.resp) :
                        d \in {e \in ev'.delivered : e.req = req[c]}} :
                     c \in woken}
      now == IF woken # {} THEN {}
             ELSE {Entry(d.req, GlobalState, d.resp) :
                     d \in {e \in ev'.delivered : ~e.req.ws}}
      answered == IF ev'.settled = "ok" /\ (\E c \in Callers : pc[c] = "ready")
                  THEN {p \in DOMAIN proc : proc[p] = "alive"}
                  ELSE {}
  IN rt' = IF rt.on
           THEN [rt EXCEPT
                   !.at = [c \in Callers |->
                             IF c \in entered THEN GlobalState ELSE rt.at[c]],
                   !.log = (rt.log \cup late) \cup now]
           ELSE IF rt.watch THEN [rt EXCEPT !.probed = rt.probed \cup answered]
           ELSE rt

\* ------------------------------------------------------------- initial state
\* nothing observable happened in the last step
NoEv == [start |-> "none", rb |-> "none", by |-> "none", settled |-> "none",
         outcomes |-> {}, spawns |-> 0, pid |-> 0, crash |-> "none", delay |-> 0,
         delivered |-> {}]

\* gateway.js:20-24 and no handler running
InitGateway ==
  /\ gatewayProc = 0
  /\ gatewayStarting = 0
  /\ lastGatewayToken = "none"
  /\ crashCount = 0
  /\ crashAge = CRASH_WINDOW_MS + 1
  /\ proc = [p \in Pids |-> "unborn"]
  /\ pc = [t \in Tasks |-> IF t \in Callers THEN "idle" ELSE "free"]
  /\ kind = [c \in Callers |-> "none"]
  /\ awaiting = [c \in Callers |-> 0]
  /\ syncOk = [t \in Tasks |-> FALSE]
  /\ remaining = [t \in Tasks |-> 0]
  /\ req = [c \in Callers |-> NoReq]
  /\ ev = NoEv
  /\ burstSpawns = 0
  /\ attOutcomes = {}
  /\ crashTotal = 0
  /\ firstAge = CRASH_WINDOW_MS + 1
  /\ exhausted = FALSE

\* no client domain, no site servers
InitBare ==
  /\ clientDomain = NoDomain
  /\ devRunning = FALSE
  /\ prodSSR = FALSE
  /\ prodRunning = FALSE
  /\ devDist = FALSE

\* nothing else is going on
InitQuiet ==
  /\ fwd = NoFwd
  /\ px = NoPx
  /\ sd = NoShutdown(FALSE)
  /\ tk = LoadedToken
  /\ fsys = PlainSites
  /\ dash = NoDash
  /\ rt = NoLog

\* a configured wrapper whose config holds the wrapper's token or another one
Init ==
  /\ InitGateway
  /\ InitBare
  /\ InitQuiet
  /\ cfgFile \in {WrapperToken, OtherToken}
  /\ cap = [callers |-> NumCallers, spawns |-> MaxSpawns, restarts |-> MaxRestarts]

\* the same wrapper with one client and a gateway that may crash many times
InitCrash ==
  /\ InitGateway
  /\ InitBare
  /\ InitQuiet
  /\ cfgFile = WrapperToken
  /\ cap = [callers |-> 1, spawns |-> CrashSpawns, restarts |-> MaxRestarts]

\* ------------------------------------------------------ ensureGatewayRunning
\* the callers suspended in `await gatewayStarting`
Pending == {c \in Callers : pc[c] \in {"sync", "finish", "ready", "await"}}

\* a faulty guard: every call starts a sequence of its own
NoStartInFlight_Never == TRUE

\* gateway.js:325 `if (!gatewayStarting)`
NoStartInFlight == gatewayStarting = 0

\* the handler of caller c is over
Done(c) ==
  /\ pc' = [pc EXCEPT ![c] = "idle"]
  /\ kind' = [kind EXCEPT ![c] = "none"]
  /\ awaiting' = [awaiting EXCEPT ![c] = 0]
  /\ req' = [req EXCEPT ![c] = NoReq]

\* (the clock and the deadlines are left to the action that makes the call)
\* gateway.js:323-324 ensureGatewayRunning returns without waiting; the
\* handler k of caller c goes on to answer request r
EnsureNow(c, k, r, out) ==
  /\ Done(c)
  /\ attOutcomes' = IF gatewayStarting # 0 THEN attOutcomes \cup {out}
                    ELSE attOutcomes
  /\ ev' = [NoEv EXCEPT !.delivered = {[req |-> r, resp |-> AfterEnsure(k, out)]}]
  /\ UNCHANGED <<cfgFile, gatewayProc, gatewayStarting, lastGatewayToken,
                 crashCount, proc, syncOk, burstSpawns, crashTotal>>

\* gateway.js:325-338 the call creates the start promise (and runs
\* startGateway up to its first await, gateway.js:62-76) or joins the one in
\* flight, and suspends
EnsureWait(c, k, r) ==
  /\ IF NoStartInFlight
     THEN /\ gatewayStarting' = c
          /\ pc' = [pc EXCEPT ![c] = "sync"]
          /\ awaiting' = [awaiting EXCEPT ![c] = c]
          /\ attOutcomes' = {}
     ELSE /\ gatewayStarting' = gatewayStarting
          /\ pc' = [pc EXCEPT ![c] = "await"]
          /\ awaiting' = [awaiting EXCEPT ![c] = gatewayStarting]
          /\ attOutcomes' = attOutcomes
  /\ kind' = [kind EXCEPT ![c] = k]
  /\ req' = [req EXCEPT ![c] = r]
  /\ ev' = NoEv
  /\ UNCHANGED <<cfgFile, gatewayProc, lastGatewayToken, crashCount, proc,
                 syncOk, burstSpawns, crashTotal>>

\* a faulty call: it returns ok without waiting for any start
EnsureGatewayRunning_NoWait(c, k, r) == EnsureNow(c, k, r, "ok")

\* gateway.js:322-340
EnsureGatewayRunning(c, k, r) ==
  IF ~IsConfigured THEN EnsureNow(c, k, r, "notok")
  ELSE IF gatewayProc # 0 THEN EnsureNow(c, k, r, "ok")
  ELSE EnsureWait(c, k, r)

\* gateway.js:334-338 the promise created by caller o settles with `out`:
\* .finally clears gatewayStarting and every caller awaiting that promise
\* resumes in its handler; e is what the settling step did before
Settle(o, out, e) ==
  LET woken == {c \in Callers : awaiting[c] = o}
  IN /\ gatewayStarting' = 0
     /\ pc' = [t \in Tasks |-> IF t \in woken THEN "idle" ELSE pc[t]]
     /\ kind' = [c \in Callers |-> IF c \in woken THEN "none" ELSE kind[c]]
     /\ awaiting' = [c \in Callers |-> IF c \in woken THEN 0 ELSE awaiting[c]]
     /\ req' = [c \in Callers |-> IF c \in woken THEN NoReq ELSE req[c]]
     /\ attOutcomes' = {}
     /\ burstSpawns' = IF Pending \subseteq woken THEN 0 ELSE burstSpawns
     /\ ev' = [e EXCEPT !.settled = out,
                        !.outcomes = attOutcomes \cup {out},
                        !.spawns = burstSpawns,
                        !.delivered = {[req |-> req[c],
                                        resp |-> AfterEnsure(kind[c], out)] :
                                       c \in woken}]

\* --------------------------------------------------------------- startGateway
\* who runs the start sequence of task t
StartedBy(t) == IF t \in Callers THEN kind[t] ELSE "timer"

\* gateway.js:76-211 the awaited config commands of task t complete; the one
\* that sets gateway.auth.token (81-89) exits with code 0, having written the
\* token, or fails
StartSync(t) ==
  /\ pc[t] = "sync"
  /\ \E ok \in BOOLEAN :
       /\ syncOk' = [syncOk EXCEPT ![t] = ok]
       /\ cfgFile' = IF ok THEN WrapperToken ELSE cfgFile
  /\ pc' = [pc EXCEPT ![t] = "finish"]
  /\ ev' = NoEv
  /\ UNCHANGED <<gatewayProc, gatewayStarting, lastGatewayToken, crashCount,
                 crashAge, proc, kind, awaiting, remaining, req,
                 burstSpawns, attOutcomes, crashTotal, firstAge, exhausted, cap>>
  /\ UNCHANGED frameVars
  /\ Track

\* a faulty comparison: any config that can be read passes
TokenVerified_AnyReadable(rb) == rb # "absent"

\* gateway.js:238 `configToken !== OPENCLAW_GATEWAY_TOKEN` is false
TokenVerified(rb) == rb = WrapperToken

\* gateway.js:212-319 the last segment of startGateway: the direct write when
\* the sync failed (212-224, its own failure is swallowed), the read-back and
\* comparison (226-250), the spawn (267) and the registration of the handlers;
\* in a start promise the readiness wait begins (gateway.js:328)
StartFinish(t) ==
  /\ pc[t] = "finish"
  /\ \E dw \in BOOLEAN :
       LET written == ~syncOk[t] /\ dw
           rb == IF written THEN WrapperToken ELSE cfgFile
           e  == [NoEv EXCEPT !.rb = rb, !.by = StartedBy(t)]
       IN /\ cfgFile' = rb
          /\ IF TokenVerified(rb)
             THEN /\ NextPid <= cap.spawns
                  /\ proc' = [proc EXCEPT ![NextPid] = "alive"]
                  /\ gatewayProc' = NextPid
                  /\ lastGatewayToken' = WrapperToken
                  /\ ev' = [e EXCEPT !.start = "spawned", !.pid = NextPid]
                  /\ IF t \in Callers
                     THEN /\ pc' = [pc EXCEPT ![t] = "ready"]
                          /\ remaining' = [remaining EXCEPT ![t] = READY_TIMEOUT_MS]
                          /\ burstSpawns' = burstSpawns + 1
                     ELSE /\ pc' = [pc EXCEPT ![t] = "free"]
                          /\ remaining' = [remaining EXCEPT ![t] = 0]
                          /\ burstSpawns' = burstSpawns
                  /\ UNCHANGED <<gatewayStarting, kind, awaiting, req,
                                 attOutcomes>>
             ELSE /\ UNCHANGED <<proc, gatewayProc, lastGatewayToken, remaining>>
                  /\ IF t \in Callers
                     THEN Settle(t, "rejected", [e EXCEPT !.start = "threw"])
                     ELSE /\ pc' = [pc EXCEPT ![t] = "free"]
                          /\ ev' = [e EXCEPT !.start = "threw"]
                          /\ UNCHANGED <<gatewayStarting, kind, awaiting, req,
                                         attOutcomes, burstSpawns>>
  /\ syncOk' = [syncOk EXCEPT ![t] = FALSE]
  /\ UNCHANGED <<crashCount, crashAge, crashTotal, firstAge,
                 exhausted, cap>>
  /\ UNCHANGED frameVars
  /\ Track

\* gateway.js:36-59, 328-329 a probe of the gateway port is answered: the
\* start promise of caller c resolves
ReadyOk(c) ==
  /\ pc[c] = "ready"
  /\ Live # {}
  /\ Settle(c, "ok", NoEv)
  /\ remaining' = [remaining EXCEPT ![c] = 0]
  /\ UNCHANGED <<cfgFile, gatewayProc, lastGatewayToken, crashCount,
                 crashAge, proc, syncOk, crashTotal, firstAge,
                 exhausted, cap>>
  /\ UNCHANGED frameVars
  /\ Track

\* gateway.js:328-333 no probe was answered within the timeout: the start
\* promise of caller c rejects
ReadyTimeout(c) ==
  /\ pc[c] = "ready"
  /\ PassTo(c)
  /\ Settle(c, "rejected", NoEv)
  /\ UNCHANGED <<cfgFile, gatewayProc, lastGatewayToken, crashCount, proc,
                 syncOk, crashTotal, exhausted, cap>>
  /\ UNCHANGED frameVars
  /\ Track

\* ------------------------------------------------ exit handler, restart timer
\* a faulty ceiling: the fifth crash already schedules nothing
MayAutoRestart_Strict(n) == n < MAX_CRASH_RESTARTS

\* gateway.js:304 `if (crashCount <= MAX_CRASH_RESTARTS)`
MayAutoRestart(n) == n <= MAX_CRASH_RESTARTS

\* gateway.js:298-303 the crash counter after one more crash now
CountCrash ==
  (IF crashAge > CRASH_WINDOW_MS THEN 0 ELSE crashCount) + 1

\* no start sequence is running and no restart timer is pending
NoStartUnderWay ==
  /\ \A t \in Tasks : pc[t] \notin {"pending", "sync", "finish", "pkill", "sleep"}
  /\ gatewayStarting = 0

FreeTimers == {t \in TimerIds : pc[t] = "free"}
FreeTimer  == CHOOSE t \in FreeTimers : \A u \in FreeTimers : t <= u

\* gateway.js:291-319 the "exit" handler: process p is gone and the handle is
\* cleared, whichever process it holds.  how = "crash": exit code non-zero,
\* no signal; "clean": exit code 0; "signal": killed by SIGTERM or SIGINT
ProcExit(p, how) ==
  /\ proc[p] \in {"alive", "termed"}
  /\ proc' = [proc EXCEPT ![p] = "dead"]
  /\ gatewayProc' = 0
  /\ IF how = "crash" /\ lastGatewayToken # "none"
     THEN /\ crashAge' = 0
          /\ crashCount' = CountCrash
          /\ crashTotal' = crashTotal + 1
          /\ firstAge' = IF crashTotal = 0 THEN 0 ELSE firstAge
          /\ IF MayAutoRestart(CountCrash)
             THEN /\ FreeTimers # {}
                  /\ pc' = [pc EXCEPT ![FreeTimer] = "pending"]
                  /\ remaining' = [remaining EXCEPT ![FreeTimer] =
                                          BackoffDelay(CountCrash)]
                  /\ exhausted' = exhausted
                  /\ ev' = [NoEv EXCEPT !.crash = "scheduled", !.pid = p,
                                        !.delay = BackoffDelay(CountCrash)]
             ELSE /\ exhausted' = (exhausted \/ NoStartUnderWay)
                  /\ ev' = [NoEv EXCEPT !.crash = "withheld", !.pid = p]
                  /\ UNCHANGED <<pc, remaining>>
     ELSE /\ ev' = [NoEv EXCEPT !.crash = how, !.pid = p]
          /\ UNCHANGED <<crashAge, crashCount, crashTotal, firstAge,
                         pc, remaining, exhausted>>
  /\ UNCHANGED <<cfgFile, gatewayStarting, lastGatewayToken, kind,
                 awaiting, syncOk, req, burstSpawns, attOutcomes, cap>>
  /\ UNCHANGED frameVars
  /\ Track

\* gateway.js:307-314 the restart timer t fires and calls startGateway, which
\* returns at once when a process is registered (gateway.js:62), throws when
\* the wrapper is not configured (63) and else runs to its first await
TimerFire(t) ==
  /\ pc[t] = "pending"
  /\ PassTo(t)
  /\ IF gatewayProc # 0
     THEN /\ pc' = [pc EXCEPT ![t] = "free"]
          /\ ev' = [NoEv EXCEPT !.by = "timer", !.start = "skipped"]
     ELSE IF ~IsConfigured
     THEN /\ pc' = [pc EXCEPT ![t] = "free"]
          /\ ev' = [NoEv EXCEPT !.by = "timer", !.start = "threw"]
     ELSE /\ pc' = [pc EXCEPT ![t] = "sync"]
          /\ ev' = NoEv
  /\ UNCHANGED <<cfgFile, gatewayProc, gatewayStarting, lastGatewayToken,
                 crashCount, proc, kind, awaiting, syncOk, req, burstSpawns,
                 attOutcomes, crashTotal, exhausted, cap>>
  /\ UNCHANGED frameVars
  /\ Track

\* nothing happens for longer than the crash window
WindowElapse ==
  /\ Waiting = {}
  /\ crashAge <= CRASH_WINDOW_MS
  /\ crashAge' = CRASH_WINDOW_MS + 1
  /\ firstAge' = CRASH_WINDOW_MS + 1
  /\ ev' = NoEv
  /\ UNCHANGED <<cfgFile, gatewayProc, gatewayStarting, lastGatewayToken,
                 crashCount, proc, pc, kind, awaiting, syncOk, remaining, req,
                 burstSpawns, attOutcomes, crashTotal, exhausted, cap>>
  /\ UNCHANGED frameVars
  /\ Track

\* ------------------------------------------------------------------- routing
Redirect     == Resp("redirect", 302, "setup", FALSE, "none", FALSE)
\* answered by a route registered before the routing middleware
RouteHandled == Resp("route", 0, "none", FALSE, "none", FALSE)
\* next() with no later route matching: Express answers 404
NoRoute      == Resp("notfound", 404, "none", FALSE, "none", FALSE)
\* serveStaticSite(dir, req, res)
Static(dir, rob) == Resp("static", 0, "none", FALSE, dir, rob)
\* res.send of a fixed text body
TextBody(rob)    == Resp("text", 200, "none", FALSE, "none", rob)

\* site-builder.js:8-72 serveStaticSite(dir, req, res), for the paths of
\* Paths (they hold no escape and no dot segment, so decodeURIComponent and
\* the check of line 26 leave them alone): the file at the path, its
\* index.html, its .html, then 404.html, the placeholder page, index.html
\* for the routes of a single-page site, and else 404 "Not found"
ServeStaticSite(dir, path, rob) ==
  LET files == fsys.files[dir]
      rel == IF path = P_root THEN F_index ELSE Tail(path)
      Sent(code, d, f) ==
        [Static(d, rob) EXCEPT !.code = code, !.file = f]
      isApiPath == StartsWith(path, ApiPrefix) \/ StartsWith(path, AstroPrefix)
      isStaticAsset == HasExtName(path) /\ ~EndsWith(path, DotHtml)
  IN IF rel \in files THEN Sent(200, dir, rel)
     ELSE IF (rel \o <<"/">> \o F_index) \in files
     THEN Sent(200, dir, rel \o <<"/">> \o F_index)
     ELSE IF (rel \o DotHtml) \in files THEN Sent(200, dir, rel \o DotHtml)
     ELSE IF F_404 \in files THEN Sent(404, dir, F_404)
     ELSE IF fsys.placeholder THEN Sent(200, "public", F_placeholder)
     ELSE IF F_index \in files /\ ~isApiPath /\ ~isStaticAsset
     THEN Sent(200, dir, F_index)
     ELSE Sent(404, "none", <<>>)

\* a faulty choice: the source tree is served though a build output exists
DevStaticDir_SourceTree == "dev"

\* server.js:2699-2700 devStaticDir
DevStaticDir == IF devDist THEN "dev/dist" ELSE "dev"

\* server.js:125, 225, 265, 1043, 2046, 2222: the routes registered before
\* the routing middleware, among the paths of Paths
ExplicitRoute(method, path) ==
  \/ method = "GET" /\ path \in {P_setupHealthz, P_status, P_setup, P_codexStatus}
  \/ method = "POST" /\ path \in {P_rebuild, P_webhook}

\* a faulty list: the rebuild trigger is missing
AllowListed_NoRebuild(path) == path \in {P_webhook, P_status}

\* server.js:2449
AllowListed(path) == path \in {P_webhook, P_rebuild, P_status}

\* a faulty test: the host rules are skipped while a gateway start is in
\* flight
HasDomain_Idle == clientDomain # NoDomain /\ gatewayStarting = 0

\* server.js:2444-2445
HasDomain == clientDomain # NoDomain

\* a faulty order: the redirect is tried after the host rules
ForcedToSetup_AfterHosts(path) ==
  ~IsConfigured /\ ~StartsWith(path, P_setup) /\ ~HasDomain

\* server.js:2439
ForcedToSetup(path) == ~IsConfigured /\ ~StartsWith(path, P_setup)

\* server.js:2437-2744 the routing middleware, for a request no earlier route
\* took: the response, or `ensure` when the handler first awaits
\* ensureGatewayRunning (2715-2718, 2731-2740)
Decide(r) ==
  LET host == ToLowerCase(r.host)
      gw   == [ensure |-> IsConfigured, resp |-> ProxyWeb("gateway", "none", FALSE)]
      Now(x) == [ensure |-> FALSE, resp |-> x]
  IN IF ForcedToSetup(r.path) THEN Now(Redirect)
     ELSE IF HasDomain /\ AllowListed(r.path) THEN Now(NoRoute)
     ELSE IF HasDomain /\ host \in {clientDomain, Prefixed("www", clientDomain)}
     THEN IF r.path \in {P_llms, P_llmsFull} THEN Now(TextBody(FALSE))
          ELSE IF prodSSR /\ prodRunning
          THEN Now(ProxyWeb("prod", "prod-server", FALSE))
          ELSE Now(ServeStaticSite("production", r.path, FALSE))
     ELSE IF HasDomain /\ host = Prefixed("dev", clientDomain)
     THEN IF r.path = P_robots THEN Now(TextBody(TRUE))
          ELSE IF devRunning THEN Now(ProxyWeb("dev", "dev-server", TRUE))
          ELSE Now(ServeStaticSite(DevStaticDir, r.path, TRUE))
     ELSE IF HasDomain /\ host = Prefixed("gerald", clientDomain)
     THEN IF StartsWith(r.path, P_openclaw) THEN gw
          ELSE Now(ProxyWeb("dashboard", "dashboard", FALSE))
     ELSE gw

\* caller c is the first handler slot that is free (which slot a request
\* takes makes no difference)
FreeSlot(c) ==
  /\ c <= cap.callers
  /\ pc[c] = "idle"
  /\ \A d \in Callers : d < c => pc[d] # "idle"

\* the variables of the gateway supervisor, but the event of the last step
lifeVars == <<cfgFile, gatewayProc, gatewayStarting, lastGatewayToken,
              crashCount, crashAge, proc, pc, kind, awaiting,
              syncOk, remaining, req, burstSpawns, attOutcomes, crashTotal,
              firstAge>>

\* a handler answers request r without awaiting anything
Respond(r, x) ==
  /\ ev' = [NoEv EXCEPT !.delivered = {[req |-> r, resp |-> x]}]
  /\ UNCHANGED lifeVars

\* an HTTP request arrives: the Express chain of server.js up to the first
\* await of the handler that takes it
HttpRequest(c, r) ==
  /\ FreeSlot(c)
  /\ IF ExplicitRoute(r.method, r.path) THEN Respond(r, RouteHandled)
     ELSE IF Decide(r).ensure
     THEN EnsureGatewayRunning(c, "http", r) /\ UNCHANGED <<remaining, crashAge, firstAge>>
     ELSE Respond(r, Decide(r).resp)
  /\ UNCHANGED <<exhausted, cap>>
  /\ UNCHANGED frameVars
  /\ Track

\* a faulty gate: no host is refused
WsHostRefused_Never(wsHost) == FALSE

\* server.js:2860 `clientDomain && wsHost !== `gerald.${clientDomain}``
WsHostRefused(wsHost) ==
  HasDomain /\ wsHost # Prefixed("gerald", clientDomain)

\* server.js:2842-2899 the upgrade handler up to its first await
DecideWs(r) ==
  LET wsHost == ToLowerCase(r.host)
      Now(x) == [ensure |-> FALSE, resp |-> x]
  IN IF ~IsConfigured THEN Now(Destroyed)
     ELSE IF HasDomain /\ wsHost = Prefixed("dev", clientDomain) /\ devRunning
     THEN Now(ProxyWsPlain("dev"))
     ELSE IF WsHostRefused(wsHost) THEN Now(Destroyed)
     ELSE IF StartsWith(r.path, P_openclaw) \/ r.path = P_root
     THEN [ensure |-> TRUE, resp |-> ProxyWsGateway]
     ELSE Now(ProxyWsPlain("dashboard"))

\* a WebSocket upgrade arrives
WsUpgrade(c, r) ==
  /\ FreeSlot(c)
  /\ IF DecideWs(r).ensure
     THEN EnsureGatewayRunning(c, "ws", r) /\ UNCHANGED <<remaining, crashAge, firstAge>>
     ELSE Respond(r, DecideWs(r).resp)
  /\ UNCHANGED <<exhausted, cap>>
  /\ UNCHANGED frameVars
  /\ Track

\* -------------------------------------------------------- operator endpoints
\* the requests of an operator who passed requireSetupAuth
BareHost == <<"app", "railway", "app">>
\* "/setup/api/gateway/start"
P_gatewayStart ==
  <<"/", "s", "e", "t", "u", "p", "/", "a", "p", "i", "/", "g", "a", "t",
  "e", "w", "a", "y", "/", "s", "t", "a", "r", "t">>
\* "/setup/api/gateway/restart"
P_gatewayRestart ==
  <<"/", "s", "e", "t", "u", "p", "/", "a", "p", "i", "/", "g", "a", "t",
  "e", "w", "a", "y", "/", "r", "e", "s", "t", "a", "r", "t">>
StartReq ==
  [ws |-> FALSE, method |-> "POST", host |-> BareHost, path |-> P_gatewayStart]
RestartReq ==
  [ws |-> FALSE, method |-> "POST", host |-> BareHost, path |-> P_gatewayRestart]

\* server.js:1945-1961 POST /setup/api/gateway/start
ManualStart(c) ==
  /\ FreeSlot(c)
  /\ IF ~IsConfigured THEN Respond(StartReq, Json(400))
     ELSE IF gatewayProc # 0 THEN Respond(StartReq, Json(200))
     ELSE /\ EnsureGatewayRunning(c, "start", StartReq)
          /\ UNCHANGED <<remaining, crashAge, firstAge>>
  /\ exhausted' = FALSE
  /\ UNCHANGED cap
  /\ UNCHANGED frameVars
  /\ Track

\* server.js:1963-1976 POST /setup/api/gateway/restart, and restartGateway
\* (gateway.js:342-358) up to its first await: SIGTERM to the registered
\* process, the handle cleared, pkill started.  POST /setup/api/config/repair
\* (server.js:1988-2009) calls the same restartGateway
ManualRestart(c) ==
  /\ FreeSlot(c)
  /\ cap.restarts > 0
  /\ cap' = [cap EXCEPT !.restarts = @ - 1]
  /\ IF ~IsConfigured
     THEN /\ Respond(RestartReq, Json(400))
     ELSE /\ proc' = [p \in Pids |-> IF p = gatewayProc /\ proc[p] = "alive"
                                     THEN "termed" ELSE proc[p]]
          /\ gatewayProc' = 0
          /\ pc' = [pc EXCEPT ![c] = "pkill"]
          /\ kind' = [kind EXCEPT ![c] = "restart"]
          /\ req' = [req EXCEPT ![c] = RestartReq]
          /\ ev' = NoEv
          /\ UNCHANGED <<cfgFile, gatewayStarting, lastGatewayToken,
                         crashCount, crashAge, awaiting, syncOk,
                         remaining, burstSpawns, attOutcomes, crashTotal, firstAge>>
  /\ exhausted' = FALSE
  /\ UNCHANGED frameVars
  /\ Track

\* gateway.js:354-361 `pkill -f openclaw-gateway` returns, having signalled
\* the gateway processes it matched (all of them or none); the 1.5 s sleep
\* begins
RestartPkill(c) ==
  /\ pc[c] = "pkill"
  /\ \E hit \in BOOLEAN :
       proc' = [p \in Pids |-> IF hit /\ proc[p] = "alive" THEN "termed"
                               ELSE proc[p]]
  /\ pc' = [pc EXCEPT ![c] = "sleep"]
  /\ remaining' = [remaining EXCEPT ![c] = RESTART_SLEEP_MS]
  /\ ev' = NoEv
  /\ UNCHANGED <<cfgFile, gatewayProc, gatewayStarting, lastGatewayToken,
                 crashCount, crashAge, kind, awaiting, syncOk, req,
                 burstSpawns, attOutcomes, crashTotal, firstAge, exhausted, cap>>
  /\ UNCHANGED frameVars
  /\ Track

\* gateway.js:363-365 the sleep is over: restartGateway calls
\* ensureGatewayRunning
RestartWake(c) ==
  /\ pc[c] = "sleep"
  /\ PassTo(c)
  /\ EnsureGatewayRunning(c, "restart", req[c])
  /\ UNCHANGED <<exhausted, cap>>
  /\ UNCHANGED frameVars
  /\ Track

\* server.js:1931-1943 POST /setup/api/reset deletes the config file
SetupReset ==
  /\ IsConfigured
  /\ cfgFile' = "absent"
  /\ ev' = NoEv
  /\ UNCHANGED <<gatewayProc, gatewayStarting, lastGatewayToken, crashCount,
                 crashAge, proc, pc, kind, awaiting, syncOk, remaining,
                 req, burstSpawns, attOutcomes, crashTotal, firstAge,
                 exhausted, cap>>
  /\ UNCHANGED frameVars
  /\ Track

\* ------------------------------------------------------- forwarded bodies
\* server.js:72 express.json reads the whole body of a POST and parses it:
\* a text it refuses is answered 400; else req.body is the value, and the
\* routing middleware hands the request to proxy.web with route tag `tag`.
\* The outgoing request starts with the headers of the incoming one, so with
\* its Content-Length.
JsonPost(text, tag) ==
  /\ fwd.stage # "parsed"
  /\ LET r == JsonParse(text)
     IN fwd' = IF StrictJson(text) /\ r.ok
               THEN [stage |-> "parsed", raw |-> text, body |-> r.v,
                     tag |-> tag, auth |-> FALSE, written |-> <<>>,
                     outLen |-> ByteLength(text)]
               ELSE [NoFwd EXCEPT !.stage = "refused", !.raw = text]
  /\ ev' = NoEv
  /\ UNCHANGED <<lifeVars, exhausted, cap, siteVars, px, sd, tk, fsys, dash, rt>>

\* server.js:2367-2383 the proxyReq hook: the token unless the tag is
\* 'dashboard'; a body with keys is serialized again and written with its
\* byte length as Content-Length.  The incoming stream was read to its end
\* by express.json, so nothing else is written to the outgoing request.
ProxyReqBody ==
  /\ fwd.stage = "parsed"
  /\ fwd' = IF HasKeys(fwd.body)
            THEN [fwd EXCEPT !.stage = "sent",
                             !.auth = ProxyReqAuth(fwd.tag),
                             !.written = Stringify(fwd.body),
                             !.outLen = ByteLength(Stringify(fwd.body))]
            ELSE [fwd EXCEPT !.stage = "sent",
                             !.auth = ProxyReqAuth(fwd.tag)]
  /\ ev' = NoEv
  /\ UNCHANGED <<lifeVars, exhausted, cap, siteVars, px, sd, tk, fsys, dash, rt>>

\* ------------------------------------------------------ proxy.web exchanges
\* server.js:2314-2323, 2674-2743 proxy.web(req, res, {target}): the proxy
\* opens the connection to the backend
ProxyWebCall(tag) ==
  /\ px.stage \in {"none", "ended", "failed"}
  /\ px' = [NoPx EXCEPT !.stage = "connecting", !.tag = tag]
  /\ UNCHANGED <<lifeVars, ev, exhausted, cap, siteVars, fwd, sd, tk, fsys, dash, rt>>

\* server.js:2879-2891 the upgrade handler after ensureGatewayRunning has
\* resolved: the URL is rewritten and proxy.ws called with the bearer header
\* among its options, which http-proxy sets over the client's headers
WsGatewayForward(q, a) ==
  /\ px.stage \in {"none", "ws"}
  /\ px' = [NoPx EXCEPT !.stage = "ws",
                        !.ws = [query |-> q, auth |-> a,
                                outQuery |-> WsGatewayQuery(q),
                                outAuth |-> WrapperToken]]
  /\ UNCHANGED <<lifeVars, ev, exhausted, cap, siteVars, fwd, sd, tk, fsys, dash, rt>>

\* the backend answers with a status line and headers: the proxyRes
\* listeners run (server.js:2334-2355 changes nothing of what is modelled;
\* 2386-2429 forces X-Robots-Tag for an exchange tagged dev-server and, for
\* HTML, replaces res.write and res.end), then the proxy copies status and
\* headers to the response (they are sent with the first chunk or the end)
BackendHeaders(code, ctype, doc) ==
  /\ px.stage = "connecting"
  /\ ctype = "text/html" \/ doc = "no-head"
  /\ px' = [px EXCEPT !.stage = "responding", !.upstream = code,
                      !.status = code,
                      !.dev = [NoRewrite EXCEPT
                                 !.ctype = ctype, !.doc = doc,
                                 !.robots = DevRewriteApplies(px.tag),
                                 !.buffered = DevRewriteApplies(px.tag)
                                              /\ ctype = "text/html"]]
  /\ UNCHANGED <<lifeVars, ev, exhausted, cap, siteVars, fwd, sd, tk, fsys, dash, rt>>

\* a chunk of the backend's body is piped to the client, or held back by
\* the replaced res.write (server.js:2399-2402)
BackendChunk ==
  /\ px.stage = "responding"
  /\ px.chunks + px.dev.held < MaxChunks
  /\ px' = IF px.dev.buffered
           THEN [px EXCEPT !.dev.held = @ + 1]
           ELSE [px EXCEPT !.chunks = @ + 1, !.headersSent = TRUE,
                           !.body = "partial"]
  /\ UNCHANGED <<lifeVars, ev, exhausted, cap, siteVars, fwd, sd, tk, fsys, dash, rt>>

\* the backend's response ends, and with it the client's; the replaced
\* res.end (server.js:2404-2425) sends the held chunks as one body, with the
\* meta tag and a new Content-Length
BackendEnd ==
  /\ px.stage = "responding"
  /\ px' = IF px.dev.buffered
           THEN [px EXCEPT !.stage = "ended", !.headersSent = TRUE,
                           !.body = InjectMeta(px.dev.doc), !.ended = TRUE,
                           !.dev.relen = TRUE]
           ELSE [px EXCEPT !.stage = "ended", !.headersSent = TRUE,
                           !.body = "backend", !.ended = TRUE]
  /\ UNCHANGED <<lifeVars, ev, exhausted, cap, siteVars, fwd, sd, tk, fsys, dash, rt>>

\* server.js:2325-2331 proxy.on("error"): the retry page with status 503,
\* when the headers of the response are not sent yet; else nothing.  When
\* res.end is the replaced one, its res.setHeader (2419) comes after
\* res.writeHead(503) and throws: the response is left open
ProxyOnError(x) ==
  IF ~x.headersSent /\ x.dev.buffered
  THEN [x EXCEPT !.stage = "failed", !.headersSent = TRUE, !.status = 503,
                 !.error = TRUE]
  ELSE IF ~x.headersSent
  THEN [x EXCEPT !.stage = "ended", !.headersSent = TRUE, !.status = 503,
                 !.body = "retry-page", !.ended = TRUE, !.error = TRUE]
  ELSE [x EXCEPT !.stage = "failed", !.error = TRUE]

\* the connection to the backend fails: refused, or reset before or while
\* the backend answers; the proxy emits "error"
BackendFails ==
  /\ px.stage \in {"connecting", "responding"}
  /\ px' = ProxyOnError(px)
  /\ UNCHANGED <<lifeVars, ev, exhausted, cap, siteVars, fwd, sd, tk, fsys, dash, rt>>

\* ------------------------------------------------------- signals, shutdown
\* site-builder.js:74-84 autoSaveDevChanges up to its first await: it returns
\* at once when DEV_DIR is no git repository, else `git status` is started
SaveEnter == IF sd.repo THEN "status" ELSE "returned"

\* server.js:2755-2765 and 3012-3030: the process receives SIGTERM or SIGINT
\* and runs its listeners in the order they were registered.  The first one
\* calls autoSaveDevChanges and suspends at its await.  SIGTERM has a second
\* one, which signals the child processes and calls process.exit(0); for
\* SIGINT the process exits when the awaited save has returned.
Signal(sig) ==
  /\ ~sd.exited
  /\ \E i \in SignalIds :
       /\ i = Cardinality({j \in SignalIds : sd.sig[j] # "none"}) + 1
       /\ sd' = [sd EXCEPT !.sig[i] = sig, !.save[i] = SaveEnter,
                           !.killed = @ \/ sig = "SIGTERM",
                           !.exited = sig = "SIGTERM" \/ SaveEnter = "returned"]
  /\ proc' = [p \in Pids |->
               IF sig = "SIGTERM" /\ p = gatewayProc /\ proc[p] = "alive"
               THEN "termed" ELSE proc[p]]
  /\ ev' = NoEv
  /\ UNCHANGED <<cfgFile, gatewayProc, gatewayStarting, lastGatewayToken,
                 crashCount, crashAge, pc, kind, awaiting, syncOk,
                 remaining, req, burstSpawns, attOutcomes, crashTotal,
                 firstAge, exhausted, cap, siteVars, fwd, px, tk, fsys, dash, rt>>

\* site-builder.js:82-196 the command awaited by the i-th call of
\* autoSaveDevChanges completes: the call goes on to its next await or
\* returns (git status failed or clean, git add or git commit failed, git
\* push done), and then its signal handler calls process.exit(0)
SaveStep(i) ==
  /\ ~sd.exited
  /\ sd.save[i] \in SaveAwaits
  /\ \E ok \in BOOLEAN :
       LET next == CASE ~ok -> "returned"
                     [] sd.save[i] = "status" -> "add"
                     [] sd.save[i] = "add"    -> "commit"
                     [] sd.save[i] = "commit" -> "push"
                     [] OTHER                 -> "returned"
       IN sd' = [sd EXCEPT !.save[i] = next,
                           !.exited = (next = "returned")]
  /\ UNCHANGED <<lifeVars, ev, exhausted, cap, siteVars, fwd, px, tk, fsys, dash, rt>>

\* the wrapper at work while it has not exited: a request for the gateway
Serving(c, r) == ~sd.exited /\ HttpRequest(c, r)

\* and the steps of the start sequence the request began
Starting(t) ==
  /\ ~sd.exited
  /\ \/ StartSync(t)
     \/ StartFinish(t)
     \/ t \in Callers /\ ReadyOk(t)

\* config.js:88-89 the module config.js is loaded: OPENCLAW_GATEWAY_TOKEN is
\* resolved and process.env.OPENCLAW_GATEWAY_TOKEN is set to it
LoadConfigModule ==
  /\ ~tk.loaded
  /\ LET r == ResolveGatewayToken(tk)
     IN tk' = [tk EXCEPT !.loaded = TRUE, !.token = r.token,
                         !.source = r.source,
                         !.env0 = tk.env, !.env = r.token, !.envSet = TRUE,
                         !.file0 = tk.file, !.file = r.file]
  /\ UNCHANGED <<lifeVars, ev, exhausted, cap, siteVars, fwd, px, sd, fsys, dash, rt>>

\* the wrapper runs only once its modules are loaded
Running(c, r) == tk.loaded /\ HttpRequest(c, r)

\* and so do the start sequences of the gateway
RunningStart(t) ==
  /\ tk.loaded
  /\ \/ StartSync(t)
     \/ StartFinish(t)
     \/ t \in Callers /\ ReadyOk(t)

\* ------------------------------------------------------------ specifications
\* the requests that reach the gateway when no client domain is set
GatewayHttp ==
  {[ws |-> FALSE, method |-> "GET", host |-> BareHost, path |-> P_openclawChat]}
GatewayWs ==
  {[ws |-> TRUE, method |-> "GET", host |-> BareHost, path |-> P_root]}

\* supervision of the gateway under concurrent requests
Next ==
  \/ \E c \in Callers, r \in GatewayHttp : HttpRequest(c, r)
  \/ \E c \in Callers, r \in GatewayWs : WsUpgrade(c, r)
  \/ \E c \in Callers : ManualStart(c)
  \/ \E c \in Callers : ManualRestart(c)
  \/ \E c \in Callers : RestartPkill(c)
  \/ \E c \in Callers : RestartWake(c)
  \/ \E t \in Tasks : StartSync(t)
  \/ \E t \in Tasks : StartFinish(t)
  \/ \E c \in Callers : ReadyOk(c)
  \/ \E c \in Callers : ReadyTimeout(c)
  \/ \E p \in Pids, how \in {"crash", "clean", "signal"} : ProcExit(p, how)
  \/ \E t \in TimerIds : TimerFire(t)
  \/ WindowElapse
  \/ SetupReset

Spec == Init /\ [][Next]_vars

\* supervision of a gateway that keeps crashing: one client, an operator who
\* starts the gateway by hand, a config nobody deletes
NextCrash ==
  \/ \E c \in Callers, r \in GatewayHttp : HttpRequest(c, r)
  \/ \E c \in Callers, r \in GatewayWs : WsUpgrade(c, r)
  \/ \E c \in Callers : ManualStart(c)
  \/ \E t \in Tasks : StartSync(t)
  \/ \E t \in Tasks : StartFinish(t)
  \/ \E c \in Callers : ReadyOk(c)
  \/ \E c \in Callers : ReadyTimeout(c)
  \/ \E p \in Pids, how \in {"crash", "clean", "signal"} : ProcExit(p, how)
  \/ \E t \in TimerIds : TimerFire(t)
  \/ WindowElapse

SpecCrash == InitCrash /\ [][NextCrash]_vars

\* routing of single requests: every deployment (configured or not, client
\* domain set or not, site servers up or down, gateway registered or not) and
\* every request of HttpRequests and WsRequests
InitRoute ==
  /\ cfgFile \in {"absent", WrapperToken}
  /\ clientDomain \in {NoDomain, Domain}
  /\ devRunning \in BOOLEAN
  /\ prodSSR \in BOOLEAN
  /\ prodRunning \in BOOLEAN
  /\ devDist \in BOOLEAN
  /\ InitQuiet
  /\ gatewayProc \in {0, 1}
  /\ proc = [p \in Pids |-> IF p = gatewayProc THEN "alive" ELSE "unborn"]
  /\ lastGatewayToken = IF gatewayProc = 0 THEN "none" ELSE WrapperToken
  /\ gatewayStarting = 0
  /\ crashCount = 0
  /\ crashAge = CRASH_WINDOW_MS + 1
  /\ pc = [t \in Tasks |-> IF t \in Callers THEN "idle" ELSE "free"]
  /\ kind = [c \in Callers |-> "none"]
  /\ awaiting = [c \in Callers |-> 0]
  /\ syncOk = [t \in Tasks |-> FALSE]
  /\ remaining = [t \in Tasks |-> 0]
  /\ req = [c \in Callers |-> NoReq]
  /\ ev = NoEv
  /\ burstSpawns = 0
  /\ attOutcomes = {}
  /\ crashTotal = 0
  /\ firstAge = CRASH_WINDOW_MS + 1
  /\ exhausted = FALSE
  /\ cap = [callers |-> 1, spawns |-> MaxSpawns, restarts |-> 0]

NextRoute ==
  \/ \E c \in Callers, r \in HttpRequests : HttpRequest(c, r)
  \/ \E c \in Callers, r \in WsRequests : WsUpgrade(c, r)
  \/ \E t \in Tasks : StartSync(t)
  \/ \E t \in Tasks : StartFinish(t)
  \/ \E c \in Callers : ReadyOk(c)
  \/ \E c \in Callers : ReadyTimeout(c)

SpecRoute == InitRoute /\ [][NextRoute]_vars

\* POST requests with JSON bodies through the proxy, one at a time
InitBody ==
  /\ InitGateway
  /\ InitBare
  /\ InitQuiet
  /\ cfgFile = WrapperToken
  /\ cap = [callers |-> 1, spawns |-> MaxSpawns, restarts |-> 0]

NextBody ==
  \/ \E text \in RawBodies, tag \in ProxyTags : JsonPost(text, tag)
  \/ ProxyReqBody

SpecBody == InitBody /\ [][NextBody]_vars

\* responses of the backends through the proxy, one exchange at a time
NextUpstream ==
  \/ \E tag \in ProxyTags : ProxyWebCall(tag)
  \/ \E code \in BackendStatus, ctype \in ContentTypes, doc \in Documents :
       BackendHeaders(code, ctype, doc)
  \/ BackendChunk
  \/ BackendEnd
  \/ BackendFails

SpecUpstream == InitBody /\ [][NextUpstream]_vars

\* termination signals: a wrapper with or without a registered gateway
\* process, a dev server process and a dev site repository
InitShutdown ==
  /\ InitGateway
  /\ clientDomain = NoDomain
  /\ devRunning \in BOOLEAN
  /\ prodSSR = FALSE
  /\ prodRunning = FALSE
  /\ devDist = FALSE
  /\ fwd = NoFwd
  /\ px = NoPx
  /\ tk = LoadedToken
  /\ fsys = PlainSites
  /\ dash = NoDash
  /\ rt = NoLog
  /\ sd \in {NoShutdown(repo) : repo \in BOOLEAN}
  /\ cfgFile = WrapperToken
  /\ cap = [callers |-> 1, spawns |-> MaxSpawns, restarts |-> 0]

\* the process handles requests until it exits (the gateway is started on the
\* first of them) and signals arrive at any time
NextShutdown ==
  \/ \E sig \in {"SIGTERM", "SIGINT"} : Signal(sig)
  \/ \E i \in SignalIds : SaveStep(i)
  \/ \E c \in Callers, r \in GatewayHttp : Serving(c, r)
  \/ \E t \in Tasks : Starting(t)

\* the start of the wrapper process: every environment and token file
InitToken ==
  /\ InitGateway
  /\ InitBare
  /\ fwd = NoFwd
  /\ px = NoPx
  /\ sd = NoShutdown(FALSE)
  /\ fsys = PlainSites
  /\ dash = NoDash
  /\ rt = NoLog
  /\ tk \in TokenInputs
           \cup {[t EXCEPT !.envSet = FALSE] : t \in {u \in TokenInputs : u.env = <<>>}}
  /\ cfgFile = WrapperToken
  /\ cap = [callers |-> 1, spawns |-> MaxSpawns, restarts |-> 0]

NextToken ==
  \/ LoadConfigModule
  \/ \E c \in Callers, r \in GatewayHttp : Running(c, r)
  \/ \E t \in Tasks : RunningStart(t)

SpecToken == InitToken /\ [][NextToken]_vars

\* static serving of the dev and production sites: a configured wrapper with
\* a client domain, the dev server up or down, every content of the dev
\* directories, with and without the placeholder page
StaticHosts == {Domain, Prefixed("dev", Domain), Prefixed("DEV", Domain)}
StaticPaths == {P_root, P_about, P_robots, P_rebuild, P_llms}
StaticRequests ==
  [ws : {FALSE}, method : {"GET"}, host : StaticHosts, path : StaticPaths]

InitStatic ==
  /\ InitGateway
  /\ clientDomain = Domain
  /\ devRunning \in BOOLEAN
  /\ prodSSR = FALSE
  /\ prodRunning = FALSE
  /\ devDist \in BOOLEAN
  /\ fwd = NoFwd
  /\ px = NoPx
  /\ sd = NoShutdown(FALSE)
  /\ tk = LoadedToken
  /\ fsys \in {[files |-> [d \in SiteDirs |->
                             CASE d = "production" -> {F_index}
                               [] d = "dev/dist" -> IF devDist THEN dist ELSE {}
                               [] OTHER -> dev],
                  placeholder |-> ph] :
               dist \in SUBSET SiteFileNames, dev \in {{}, {F_index}},
               ph \in BOOLEAN}
  /\ dash = NoDash
  /\ rt = NoLog
  /\ cfgFile = WrapperToken
  /\ cap = [callers |-> 1, spawns |-> MaxSpawns, restarts |-> 0]

NextStatic ==
  \E c \in Callers, r \in StaticRequests : HttpRequest(c, r)

SpecStatic == InitStatic /\ [][NextStatic]_vars

\* routing under concurrency: two clients, one path asked of three hosts, a
\* gateway that comes up, fails to, or exits, a config that may be deleted
DecideRequests ==
  {[ws |-> FALSE, method |-> "GET", host |-> h, path |-> P_openclawChat] :
     h \in {BareHost, Prefixed("dev", Domain), Prefixed("gerald", Domain)}}

InitDecide ==
  /\ InitGateway
  /\ clientDomain \in {NoDomain, Domain}
  /\ devRunning \in BOOLEAN
  /\ prodSSR = FALSE
  /\ prodRunning = FALSE
  /\ devDist = TRUE
  /\ fwd = NoFwd
  /\ px = NoPx
  /\ sd = NoShutdown(FALSE)
  /\ tk = LoadedToken
  /\ fsys = PlainSites
  /\ cfgFile = WrapperToken
  /\ cap = [callers |-> NumCallers, spawns |-> 1, restarts |-> 0]
  /\ dash = NoDash
  /\ rt = EmptyLog

NextDecide ==
  \/ \E c \in Callers, r \in DecideRequests : HttpRequest(c, r)
  \/ \E t \in Tasks : StartSync(t)
  \/ \E t \in Tasks : StartFinish(t)
  \/ \E c \in Callers : ReadyOk(c)
  \/ \E c \in Callers : ReadyTimeout(c)
  \/ SetupReset

SpecDecide == InitDecide /\ [][NextDecide]_vars

\* readiness of the gateway under concurrent requests, crashes and restart
\* timers: two clients, a config nobody deletes
InitProbe ==
  /\ InitGateway
  /\ InitBare
  /\ fwd = NoFwd
  /\ px = NoPx
  /\ sd = NoShutdown(FALSE)
  /\ tk = LoadedToken
  /\ fsys = PlainSites
  /\ dash = NoDash
  /\ rt = ProbeLog
  /\ cfgFile = WrapperToken
  /\ cap = [callers |-> NumCallers, spawns |-> MaxSpawns, restarts |-> 0]

NextProbe ==
  \/ \E c \in Callers, r \in GatewayHttp : HttpRequest(c, r)
  \/ \E t \in Tasks : StartSync(t)
  \/ \E t \in Tasks : StartFinish(t)
  \/ \E c \in Callers : ReadyOk(c)
  \/ \E c \in Callers : ReadyTimeout(c)
  \/ \E p \in Pids, how \in {"crash", "clean", "signal"} : ProcExit(p, how)
  \/ \E t \in TimerIds : TimerFire(t)
  \/ WindowElapse

SpecProbe == InitProbe /\ [][NextProbe]_vars

\* recovery by hand from a crash loop: the wrapper just after the crash that
\* exceeded the ceiling (six processes gone within 62 s, nothing scheduled),
\* an operator who asks for one restart
ExhaustedPids == 1..(MAX_CRASH_RESTARTS + 1)

InitRevive ==
  /\ gatewayProc = 0
  /\ gatewayStarting = 0
  /\ lastGatewayToken = WrapperToken
  /\ crashCount = MAX_CRASH_RESTARTS + 1
  /\ crashAge = 0
  /\ proc = [p \in Pids |-> IF p \in ExhaustedPids THEN "dead" ELSE "unborn"]
  /\ pc = [t \in Tasks |-> IF t \in Callers THEN "idle" ELSE "free"]
  /\ kind = [c \in Callers |-> "none"]
  /\ awaiting = [c \in Callers |-> 0]
  /\ syncOk = [t \in Tasks |-> FALSE]
  /\ remaining = [t \in Tasks |-> 0]
  /\ req = [c \in Callers |-> NoReq]
  /\ ev = [NoEv EXCEPT !.crash = "withheld", !.pid = MAX_CRASH_RESTARTS + 1]
  /\ burstSpawns = 0
  /\ attOutcomes = {}
  /\ crashTotal = MAX_CRASH_RESTARTS + 1
  /\ firstAge = BackoffDelay(1) + BackoffDelay(2) + BackoffDelay(3)
                  + BackoffDelay(4) + BackoffDelay(5)
  /\ exhausted = TRUE
  /\ InitBare
  /\ fwd = NoFwd
  /\ px = NoPx
  /\ sd = NoShutdown(FALSE)
  /\ tk = LoadedToken
  /\ fsys = PlainSites
  /\ dash = NoDash
  /\ rt = ProbeLog
  /\ cfgFile = WrapperToken
  /\ cap = [callers |-> 1, spawns |-> CrashSpawns + 1, restarts |-> MaxRestarts]

NextRevive ==
  \/ \E c \in Callers : ManualRestart(c)
  \/ \E c \in Callers : RestartPkill(c)
  \/ \E c \in Callers : RestartWake(c)
  \/ \E t \in Tasks : StartSync(t)
  \/ \E t \in Tasks : StartFinish(t)
  \/ \E c \in Callers : ReadyOk(c)
  \/ \E c \in Callers : ReadyTimeout(c)
  \/ \E p \in Pids, how \in {"crash", "clean", "signal"} : ProcExit(p, how)
  \/ \E t \in TimerIds : TimerFire(t)
  \/ WindowElapse

SpecRevive == InitRevive /\ [][NextRevive]_vars

\* the dashboard manager under concurrent calls
NextDashboard ==
  \/ \E c \in DashCallers : StartDashboard(c)
  \/ \E c \in DashCallers : DashSetupDone(c)
  \/ \E c \in DashCallers : DashHealthDone(c)
  \/ \E c \in DashCallers : StopDashboard(c)
  \/ \E c \in DashCallers : StopSettled(c)
  \/ \E p \in DashPids : DashClose(p)

SpecDashboard == InitBody /\ [][NextDashboard]_vars

SpecShutdown == InitShutdown /\ [][NextShutdown]_vars

\* ================================================================ properties

\* C1 (as amended): the ensureGatewayRunning calls that are pending together
\* have at most one gateway process spawned for them, and exactly one when
\* their start promise resolves.
C1_SingleFlight ==
  /\ burstSpawns <= 1
  /\ ev.settled = "ok" => ev.spawns = 1

\* two calls were pending together, one process was spawned, both got ok
C1_Witness ==
  /\ ev.settled = "ok"
  /\ ev.spawns = 1
  /\ Cardinality(ev.delivered) = NumCallers

\* C1 as stated: whenever the start promise of pending calls settles, exactly
\* one gateway process was spawned for them.
C1_ExactlyOneSpawn == ev.settled # "none" => ev.spawns = 1

\* C2 as stated: no start sequence spawns a gateway process while a process
\* spawned by another start sequence is still alive.
C2_NoSpawnWhileAlive == ev.start = "spawned" => Live = {ev.pid}

\* C3: every spawn happens in the step that read gateway.auth.token back from
\* the config and found the wrapper's token, which the config then holds; a
\* read-back that differs or fails makes startGateway throw without a spawn.
C3_VerifiedSpawn ==
  /\ ev.start = "spawned" => ev.rb = WrapperToken /\ cfgFile = WrapperToken
  /\ ev.rb \notin {"none", WrapperToken} => ev.start = "threw" /\ ev.pid = 0

\* a crash auto-restart spawned after its read-back
C3_Witness == ev.start = "spawned" /\ ev.by = "timer" /\ ev.rb = WrapperToken

\* C4: while all crashes so far fall in one crash window, a crash schedules an
\* automatic restart exactly when it is at most the fifth: the fourth still
\* does, the sixth does not, so at most 5 restarts are scheduled in a window.
C4_RestartCeiling ==
  (ev.crash \in {"scheduled", "withheld"} /\ firstAge <= CRASH_WINDOW_MS)
    => (ev.crash = "scheduled" <=> crashTotal <= MAX_CRASH_RESTARTS)

\* the sixth crash in one window schedules nothing
C4_Witness ==
  /\ ev.crash = "withheld"
  /\ crashTotal = MAX_CRASH_RESTARTS + 1
  /\ firstAge <= CRASH_WINDOW_MS

\* C5 as stated: after the crash ceiling was exceeded with nothing else under
\* way, and while the crash window lasts and no operator asked for a start or
\* restart, no gateway process is spawned.
C5_LeftDown ==
  (exhausted /\ crashAge <= CRASH_WINDOW_MS) => ev.start # "spawned"

\* C6 as stated: the ensureGatewayRunning calls that overlap one start attempt
\* do not end some with ok and some with a rejection.
C6_SameOutcome == ~({"ok", "rejected"} \subseteq ev.outcomes)

\* the responses the last step gave to HTTP requests, to WebSocket upgrades
HttpDelivered == {d \in ev.delivered : ~d.req.ws}
WsDelivered   == {d \in ev.delivered : d.req.ws}

C8_SetupRedirect ==
  cfgFile = "absent" =>
    \A d \in HttpDelivered :
      (~StartsWith(d.req.path, P_setup)
         /\ ~ExplicitRoute(d.req.method, d.req.path))
        => d.resp = Redirect

\* an unconfigured wrapper with a gateway process redirects a dashboard page
C8_Witness ==
  /\ cfgFile = "absent"
  /\ gatewayProc # 0
  /\ \E d \in HttpDelivered :
       /\ d.req.path = P_about
       /\ d.req.host = Prefixed("gerald", Domain)
       /\ d.resp = Redirect

\* C8 as stated: while no config file exists, every HTTP request whose path is
\* neither under /setup nor allow-listed is redirected to /setup.
C8_RedirectAll ==
  cfgFile = "absent" =>
    \A d \in HttpDelivered :
      (~StartsWith(d.req.path, P_setup)
         /\ d.req.path \notin {P_webhook, P_rebuild, P_status})
        => d.resp = Redirect

\* C9 (as amended): a request for /api/webhook/github, /api/rebuild or /status
\* is neither redirected to /setup, nor proxied, nor served from a site
\* directory when it is GET /status or POST /api/webhook/github (taken by
\* their routes ahead of the routing middleware, whatever the Host and the
\* configured state), or when the wrapper is configured and a client domain
\* is set.
C9_AllowListBypass ==
  \A d \in HttpDelivered :
    (/\ d.req.path \in {P_webhook, P_rebuild, P_status}
     /\ \/ d.req.method = "GET" /\ d.req.path = P_status
        \/ d.req.method = "POST" /\ d.req.path = P_webhook
        \/ IsConfigured /\ HasDomain)
      => d.resp.kind \notin {"redirect", "proxy", "static"}

\* a rebuild request with an unregistered method on the production host of a
\* configured wrapper bypasses the host rules
C9_Witness ==
  /\ IsConfigured
  /\ \E d \in HttpDelivered :
       /\ d.req.path = P_rebuild
       /\ d.req.method = "GET"
       /\ d.req.host = Domain
       /\ clientDomain = Domain
       /\ d.resp = NoRoute

\* C9 as stated: a request for /api/webhook/github, /api/rebuild or /status is
\* never redirected to /setup, proxied or served from a site directory.
C9_NeverRouted ==
  \A d \in HttpDelivered :
    d.req.path \in {P_webhook, P_rebuild, P_status}
      => d.resp.kind \notin {"redirect", "proxy", "static"}

\* C10: with a client domain set, an upgrade is proxied only for the host
\* gerald.<domain>, or dev.<domain> while the dev server runs; any other
\* upgrade is destroyed at once, with no start of a backend awaited.
C10_WsGate ==
  HasDomain =>
    \A d \in WsDelivered :
      LET host == ToLowerCase(d.req.host)
          allowed == \/ host = Prefixed("gerald", clientDomain)
                     \/ host = Prefixed("dev", clientDomain) /\ devRunning
      IN /\ d.resp.kind = "proxyws" => allowed
         /\ ~allowed => /\ d.resp = Destroyed
                        /\ ev.settled = "none"
                        /\ ev.start = "none"
                        /\ gatewayStarting = 0

\* an upgrade on the production host of a configured wrapper is destroyed
C10_Witness ==
  /\ HasDomain
  /\ IsConfigured
  /\ \E d \in WsDelivered :
       /\ d.req.host = Domain
       /\ d.req.path = P_root
       /\ d.resp = Destroyed

\* C11: an upgrade for gerald.<domain> with a path under /openclaw that
\* arrives while no gateway process is registered is not proxied in the step
\* it arrives; it is proxied to the gateway in the step its
\* ensureGatewayRunning call resolves, with a gateway process alive, and its
\* socket is destroyed in the step the call rejects.
C11_WsAfterEnsure ==
  \A d \in WsDelivered :
    (/\ HasDomain
     /\ ToLowerCase(d.req.host) = Prefixed("gerald", clientDomain)
     /\ StartsWith(d.req.path, P_openclaw))
      => /\ (d.resp.kind = "proxyws" /\ ev.settled = "none") => gatewayProc # 0
         /\ ev.settled = "ok" => d.resp = ProxyWsGateway /\ Live # {}
         /\ ev.settled = "rejected" => d.resp = Destroyed

\* the upgrade waited for the start and was proxied when it resolved
C11_Witness ==
  /\ ev.settled = "ok"
  /\ \E d \in WsDelivered :
       /\ d.req.host = Prefixed("gerald", Domain)
       /\ d.req.path = P_openclawChat
       /\ d.resp = ProxyWsGateway

\* the start failed and the socket of the waiting upgrade was destroyed
C11_WitnessRejected ==
  /\ ev.settled = "rejected"
  /\ \E d \in WsDelivered :
       /\ d.req.host = Prefixed("gerald", Domain)
       /\ d.req.path = P_openclawChat
       /\ d.resp = Destroyed

\* C12 as stated: for every proxied POST whose JSON body the inbound JSON
\* middleware parsed, the body written to the backend is a JSON document equal
\* to the parsed value, and the outbound Content-Length is the byte length of
\* the body written.
C12_BodyForwarded ==
  fwd.stage = "sent" =>
    /\ JsonParse(fwd.written).ok
    /\ JsonParse(fwd.written).v = fwd.body
    /\ fwd.outLen = ByteLength(fwd.written)

\* the same for the bodies that have at least one key or item
C12_NonEmptyForwarded ==
  (fwd.stage = "sent" /\ HasKeys(fwd.body)) =>
    /\ JsonParse(fwd.written).ok
    /\ JsonParse(fwd.written).v = fwd.body
    /\ fwd.outLen = ByteLength(fwd.written)

\* C13 as stated: whenever the forwarding of an HTTP request fails, the
\* client's response is complete, with status 503 and the retry page.
C13_Always503 ==
  px.error => px.ended /\ px.status = 503 /\ px.body = "retry-page"

\* the same for the failures that come before anything was sent to the client
C13_503BeforeHeaders ==
  (px.error /\ px.chunks = 0 /\ ~px.dev.buffered) =>
    px.ended /\ px.status = 503 /\ px.body = "retry-page"

\* C14 as stated: on SIGTERM or SIGINT no managed child process is signalled
\* and the wrapper does not exit while the save started for the signal has
\* not returned.
C14_SaveBeforeKill ==
  (sd.killed \/ sd.exited) => SavesInProgress = {}

\* C15 as stated: while the wrapper runs, at most one execution of
\* autoSaveDevChanges is in progress at any time.
C15_OneSave == ~sd.exited => Cardinality(SavesInProgress) <= 1

\* C16 (as amended): the token of the loaded module is the trimmed value of
\* the environment variable when that is not empty; else the trimmed content
\* of gateway.token when the file can be read and that is not empty; else the
\* generated token, which is then the content of gateway.token when the file
\* can be written, the file being left as it was otherwise; in the first two
\* cases the file is not written; and once loaded the token never changes.
C16_TokenResolved ==
  /\ [](tk.loaded =>
         IF tk.envSet /\ Trim(tk.env0) # <<>>
         THEN tk.token = Trim(tk.env0) /\ tk.file = tk.file0
         ELSE IF tk.readable /\ Trim(tk.file0) # <<>>
         THEN tk.token = Trim(tk.file0) /\ tk.file = tk.file0
         ELSE /\ tk.token = tk.random
              /\ tk.file = IF tk.writable THEN tk.token ELSE tk.file0)
  /\ [][tk.loaded => tk'.token = tk.token]_vars

\* a token generated at load could not be persisted, and the wrapper runs
C16_Witness ==
  /\ tk.loaded
  /\ tk.source = "generated"
  /\ ~tk.writable
  /\ tk.file # tk.token
  /\ gatewayProc # 0

\* C16 as stated: a token that is neither from the environment nor from the
\* file is a generated one that was written to gateway.token.
C16_GeneratedPersisted ==
  (tk.loaded /\ tk.source = "generated") => tk.file = tk.token

\* C17 (as amended): on a configured wrapper a request for / with Host
\* dev.<domain>, while the dev server is not running and the build output
\* directory exists and holds a file index.html, is answered 200 with that
\* index.html, and the response carries X-Robots-Tag: noindex, nofollow.
C17_DevIndex ==
  \A d \in HttpDelivered :
    (/\ IsConfigured /\ HasDomain
     /\ ToLowerCase(d.req.host) = Prefixed("dev", clientDomain)
     /\ d.req.path = P_root
     /\ ~devRunning /\ devDist
     /\ F_index \in fsys.files["dev/dist"])
      => /\ d.resp.kind = "static" /\ d.resp.code = 200
         /\ d.resp.dir = "dev/dist" /\ d.resp.file = F_index
         /\ d.resp.robots

\* the build output holds an index.html and the source tree another one
C17_Witness ==
  \E d \in HttpDelivered :
    /\ d.req.host = Prefixed("dev", Domain) /\ d.req.path = P_root
    /\ ~devRunning /\ devDist
    /\ F_index \in fsys.files["dev/dist"] /\ F_index \in fsys.files["dev"]
    /\ d.resp.dir = "dev/dist" /\ d.resp.file = F_index /\ d.resp.robots

\* C17 as stated: the same whenever the build output directory exists.
C17_DevIndexWheneverDist ==
  \A d \in HttpDelivered :
    (/\ IsConfigured /\ HasDomain
     /\ ToLowerCase(d.req.host) = Prefixed("dev", clientDomain)
     /\ d.req.path = P_root
     /\ ~devRunning /\ devDist)
      => /\ d.resp.kind = "static" /\ d.resp.code = 200
         /\ d.resp.dir = "dev/dist" /\ d.resp.file = F_index
         /\ d.resp.robots

C20_OkMeansProbed ==
  \A d \in HttpDelivered :
    (IsConfigured /\ d.resp = ProxyWeb("gateway", "none", FALSE))
      => gatewayProc \in rt.probed

\* C21 as stated: when the start promise of ensureGatewayRunning rejects, no
\* process handle is registered and no start is marked in flight.
C21_StoppedAfterReject ==
  ev.settled = "rejected" => (gatewayProc = 0 /\ gatewayStarting = 0)

\* the part that holds: a rejected start promise is never left in
\* gatewayStarting
C21_MarkerCleared == ev.settled = "rejected" => gatewayStarting = 0

\* C22 as stated: an exit delivered for a gateway process other than the
\* registered one leaves the handle of the registered process alone.
C22_LaterHandleKept ==
  [][\A p \in Pids :
       (/\ proc[p] \in {"alive", "termed"} /\ proc'[p] = "dead"
        /\ gatewayProc # 0 /\ gatewayProc # p)
         => gatewayProc' = gatewayProc]_vars

\* C23 as stated: when restartGateway spawns the new gateway process, no
\* process that was sent SIGTERM is still running.
C23_OldGoneBeforeSpawn ==
  (ev.start = "spawned" /\ ev.by = "restart")
    => \A p \in Pids : proc[p] # "termed"

\* C24 as stated: on a configured wrapper restartGateway resolves ok only if
\* a gateway process is registered that runs and was not sent SIGTERM.
C24_OkMeansFreshProcess ==
  \A d \in ev.delivered :
    (IsConfigured /\ d.req = RestartReq /\ d.resp = Json(200))
      => (gatewayProc # 0 /\ proc[gatewayProc] = "alive")

\* C25 as stated: automatic restart is withheld at a crash only if more than
\* MAX_CRASH_RESTARTS crashes, that one included, happened within the last
\* CRASH_WINDOW_MS (of the crashes since the wrapper started, the first is
\* not among them when it is older than the window).
C25_RollingWindow ==
  ev.crash = "withheld"
    => crashTotal - (IF firstAge > CRASH_WINDOW_MS THEN 1 ELSE 0)
         > MAX_CRASH_RESTARTS

\* C26 as stated: after the ceiling was exceeded and a manual restart brought
\* the gateway up (its process answered the readiness probe of the restart),
\* the next crash of that process schedules an automatic restart.
C26_RestartReenables ==
  (/\ ev.crash \in {"scheduled", "withheld"}
   /\ ev.pid = MAX_CRASH_RESTARTS + 2
   /\ ev.pid \in rt.probed)
    => ev.crash = "scheduled"

\* C27 as stated: the exit of a gateway process that restartGateway sent
\* SIGTERM, like an exit with code 0 or by SIGTERM or SIGINT, leaves the crash
\* counter alone and schedules no automatic restart.
C27_StopNotCounted ==
  [][\A p \in Pids :
       (/\ proc'[p] = "dead"
        /\ \/ proc[p] = "termed"
           \/ proc[p] = "alive" /\ ev'.crash \in {"clean", "signal"})
         => (/\ crashCount' = crashCount
             /\ ev'.crash \notin {"scheduled", "withheld"}
             /\ \A t \in TimerIds : pc'[t] = "pending" => pc[t] = "pending")]_vars

\* the part that holds: an exit with code 0 or by SIGTERM or SIGINT is never
\* counted and schedules nothing
C27_SignalNotCounted ==
  [][ev'.crash \in {"clean", "signal"}
       => (/\ crashCount' = crashCount
           /\ \A t \in TimerIds : pc'[t] = "pending" => pc[t] = "pending")]_vars

\* C28 as stated: the start sequences of startDashboard that overlap spawn
\* at most one dashboard process between them.
C28_SingleFlight == dash.burst <= 1

\* ------------------------------------------------- forwarding to the backends
\* a dashboard that startDashboard brought up at boot (server.js:2789)
RunningDash == [NoDash EXCEPT !.proc = 1, !.procs[1] = "alive", !.burst = 1]

\* requests to the three sites of a client domain
ForwardHosts == {Domain, Prefixed("dev", Domain), Prefixed("gerald", Domain)}
ForwardPaths == {P_status, P_openclawChat, P_about}
ForwardHttp ==
  [ws : {FALSE}, method : {"GET"}, host : ForwardHosts, path : ForwardPaths]
ForwardWs ==
  [ws : {TRUE}, method : {"GET"}, host : ForwardHosts, path : ForwardPaths]

\* a configured wrapper with a client domain; the dashboard, the dev server
\* and the production SSR server are up or down, the gateway is down
InitForward ==
  /\ InitGateway
  /\ clientDomain = Domain
  /\ devRunning \in BOOLEAN
  /\ prodSSR \in BOOLEAN
  /\ prodRunning \in BOOLEAN
  /\ devDist = TRUE
  /\ fwd = NoFwd
  /\ px = NoPx
  /\ sd = NoShutdown(FALSE)
  /\ tk = LoadedToken
  /\ fsys = PlainSites
  /\ cfgFile = WrapperToken
  /\ cap = [callers |-> 1, spawns |-> 1, restarts |-> 0]
  /\ dash \in {NoDash, RunningDash}
  /\ rt = NoLog

NextForward ==
  \/ \E c \in Callers, r \in ForwardHttp : HttpRequest(c, r)
  \/ \E c \in Callers, r \in ForwardWs : WsUpgrade(c, r)
  \/ \E t \in Tasks : StartSync(t)
  \/ \E t \in Tasks : StartFinish(t)
  \/ \E c \in Callers : ReadyOk(c)
  \/ \E c \in Callers : ReadyTimeout(c)
  \/ \E p \in DashPids : DashClose(p)

SpecForward == InitForward /\ [][NextForward]_vars

\* the backend process a forwarded request is sent to is running
BackendRunning(target) ==
  CASE target = "gateway"   -> gatewayProc # 0
    [] target = "dashboard" -> dash.proc # 0
    [] target = "dev"       -> devRunning
    [] target = "prod"      -> prodRunning
    [] OTHER                -> TRUE

\* C29 as stated: an HTTP request or WebSocket upgrade is forwarded to a
\* backend (gateway, dashboard, dev server, production SSR server) only
\* while that backend's process is running.
C29_ForwardOnlyRunning ==
  \A d \in ev.delivered :
    d.resp.kind \in {"proxy", "proxyws"} => BackendRunning(d.resp.target)

\* the part that holds: what goes to the dev server or to the production SSR
\* server goes there while its process is registered
C29_SiteServersRunning ==
  \A d \in ev.delivered :
    (d.resp.kind \in {"proxy", "proxyws"} /\ d.resp.target \in {"dev", "prod"})
      => BackendRunning(d.resp.target)

\* C30 as stated: the proxy attaches the gateway bearer token only to
\* requests forwarded to the gateway; a request tagged for the dev server or
\* the production SSR server is forwarded without it.
C30_TokenOnlyToGateway ==
  \A d \in ev.delivered :
    (d.resp.kind = "proxy" /\ d.resp.auth) => d.resp.target = "gateway"

\* the part that holds: a request tagged for the dashboard is forwarded
\* without the gateway token
C30_DashboardWithoutToken ==
  \A d \in ev.delivered :
    (d.resp.kind = "proxy" /\ d.resp.target = "dashboard") => ~d.resp.auth

\* C31: on a configured deployment, in the step ensureGatewayRunning rejects,
\* every HTTP request that was waiting for it on the way to the gateway is
\* answered with status 503 and is not forwarded.
C31_RejectedIs503 ==
  (IsConfigured /\ ev.settled = "rejected") =>
    \A d \in HttpDelivered :
      d.req \notin {StartReq, RestartReq}
        => (d.resp = Text(503) /\ d.resp.kind # "proxy")

\* a request for the gateway got 503 when the start it waited for failed
C31_Witness ==
  /\ IsConfigured
  /\ ev.settled = "rejected"
  /\ \E d \in HttpDelivered :
       d.req \notin {StartReq, RestartReq} /\ d.resp = Text(503)

\* the target the routing table names for a request of a configured
\* deployment, `own` being what the table says about /llms.txt and
\* /llms-full.txt on the production hosts
TableTarget(r, own) ==
  LET host == ToLowerCase(r.host)
  IN IF HasDomain /\ host \in {clientDomain, Prefixed("www", clientDomain)}
     THEN IF own /\ r.path \in {P_llms, P_llmsFull} THEN "none"
          ELSE IF prodSSR /\ prodRunning THEN "prod" ELSE "static"
     ELSE IF HasDomain /\ host = Prefixed("gerald", clientDomain)
     THEN IF /\ Len(r.path) >= Len(P_openclaw)
             /\ \A i \in 1..Len(P_openclaw) : r.path[i] = P_openclaw[i]
          THEN "gateway" ELSE "dashboard"
     ELSE "gateway"

\* the requests the table is about: they reach the routing middleware, their
\* path is not allow-listed and their host is not the dev host
Tabled(r) ==
  /\ ~ExplicitRoute(r.method, r.path)
  /\ ~AllowListed(r.path)
  /\ ~(HasDomain /\ ToLowerCase(r.host) = Prefixed("dev", clientDomain))

\* C32 (as amended): on a configured deployment a request that reaches the
\* routing middleware with a non-allow-listed path goes, for host D or www.D,
\* to the production SSR backend if it is detected and running and else to
\* the static files of the production directory, except /llms.txt and
\* /llms-full.txt which the wrapper answers with its own text; for host
\* gerald.D to the gateway if the path starts with /openclaw and else to the
\* dashboard; for every other host except dev.D, and whenever no client
\* domain is set, to the gateway.
C32_Targets ==
  IsConfigured =>
    \A d \in HttpDelivered :
      Tabled(d.req) =>
        /\ Target(d.resp) = TableTarget(d.req, TRUE)
        /\ Target(d.resp) = "static" => d.resp.dir \in {"production", "public"}
        /\ Target(d.resp) = "none" => d.resp = TextBody(FALSE)

\* a request for www.D went to the running production SSR backend
C32_Witness ==
  /\ IsConfigured
  /\ HasDomain
  /\ \E d \in HttpDelivered :
       /\ d.req.host = Prefixed("www", Domain)
       /\ d.req.path = P_about
       /\ d.resp = ProxyWeb("prod", "prod-server", FALSE)

\* C32 as stated: the same table without the exception for /llms.txt and
\* /llms-full.txt.
C32_TargetsNoException ==
  IsConfigured =>
    \A d \in HttpDelivered :
      Tabled(d.req) => Target(d.resp) = TableTarget(d.req, FALSE)

\* C33 as stated: when the wrapper exits on SIGTERM or SIGINT, every live
\* managed child process has been sent a termination signal.
C33_ChildrenSignalled ==
  sd.exited =>
    /\ \A p \in Pids : proc[p] # "alive"
    /\ devRunning => sd.killed

\* the part that holds: an exit that a SIGTERM brought about comes after the
\* registered gateway process and the dev server were sent SIGTERM
C33_SigtermSignals ==
  (sd.exited /\ \E i \in SignalIds : sd.sig[i] = "SIGTERM") =>
    /\ gatewayProc # 0 => proc[gatewayProc] # "alive"
    /\ sd.killed

\* C34 as stated: a startDashboard call returns normally only when the
\* dashboard answered a readiness probe with 2xx (health path, or root path
\* as fallback); when the setup fails or no probe succeeds in time the caller
\* sees a failure.
C34_SuccessMeansReady ==
  \A c \in DashCallers :
    dash.ret[c] \notin {"none", "stopped"}
      => dash.ret[c] \in {"thrown", "health-2xx", "root-2xx"}

\* C35 as stated: a stopDashboard call made while a dashboard process is live
\* or is being stopped returns only when that process has closed or its
\* 3-second grace period has run out, also when another stop is in progress.
C35_StopWaits ==
  \A c \in DashCallers :
    dash.ret[c] = "stopped" =>
      \A p \in DashPids :
        dash.procs[p] = "termed" => ~(dash.stopping # 0 /\ dash.target = p)

\* the part that holds: the call that sent SIGTERM returns when the stop
\* promise has settled
C35_StopperWaits ==
  [][\A c \in DashCallers :
       (dash.pc[c] = "stopping" /\ dash'.pc[c] = "idle")
         => (dash'.stopping = 0 /\ dash'.ret[c] = "stopped")]_vars

\* upgrades forwarded to the gateway, one at a time, with every query string
NextWs ==
  \E q \in Queries, a \in {"none", OtherToken} : WsGatewayForward(q, a)

SpecWs == InitBody /\ [][NextWs]_vars

\* the values of the token parameters of a query, in order
TokenValues(q) ==
  LET toks == SelectSeq(q, LAMBDA x : x[1] = "token")
  IN [i \in 1..Len(toks) |-> toks[i][2]]

\* C36: every upgrade proxied to the gateway carries the wrapper's token as
\* bearer header and a token query parameter; the proxy adds the parameter,
\* with the wrapper's token, only when the client's URL had none, and then
\* leaves the client's parameters as they were.
C36_WsToken ==
  px.stage = "ws" =>
    /\ px.ws.outAuth = WrapperToken
    /\ TokenValues(px.ws.outQuery) # <<>>
    /\ IF TokenValues(px.ws.query) # <<>>
       THEN px.ws.outQuery = px.ws.query
       ELSE px.ws.outQuery = px.ws.query \o << <<"token", WrapperToken>> >>

\* the client sent a session parameter and no token: the gateway got both
C36_Witness ==
  /\ px.stage = "ws"
  /\ px.ws.query = << <<"session", OtherToken>> >>
  /\ px.ws.outQuery = << <<"session", OtherToken>>, <<"token", WrapperToken>> >>
  /\ px.ws.outAuth = WrapperToken

\* the client sent an empty token parameter and its own Authorization
\* header: the parameter was kept, the header replaced
C36_WitnessKept ==
  /\ px.stage = "ws"
  /\ px.ws.query = << <<"token", "">> >>
  /\ px.ws.auth = OtherToken
  /\ px.ws.outQuery = px.ws.query
  /\ px.ws.outAuth = WrapperToken

\* C37: an exchange whose request is not tagged dev-server is left alone by
\* the dev-site rewrite, whatever its content type: X-Robots-Tag is not
\* forced, nothing is held back, Content-Length is not recomputed and the
\* body that ends the response is the backend's.
C37_RewriteOnlyDev ==
  (px.stage \in {"responding", "ended", "failed"} /\ px.tag # "dev-server") =>
    /\ ~px.dev.robots
    /\ ~px.dev.buffered
    /\ px.dev.held = 0
    /\ ~px.dev.relen
    /\ (px.ended /\ ~px.error) => px.body = "backend"

\* an HTML page of the production SSR server, with a <head> tag, went
\* through unchanged
C37_Witness ==
  /\ px.tag = "prod-server"
  /\ px.dev.ctype = "text/html"
  /\ px.dev.doc = "head"
  /\ px.ended
  /\ px.body = "backend"
  /\ ~px.dev.robots

\* and the same page of the dev server got the meta tag
C37_WitnessDev ==
  /\ px.tag = "dev-server"
  /\ px.dev.ctype = "text/html"
  /\ px.ended
  /\ px.body = "backend+meta"
  /\ px.dev.robots
  /\ px.dev.relen

\* ------------------------------------------------- static files, by location
\* A request path is a text made of pieces: a slash, a dot-dot, their
\* percent-encoded forms, and pieces of names.  A location on disk is a
\* sequence of segments, each a sequence of such pieces; `slash` tells
\* whether the text of the location ends with a slash.
PathParts == {"/", "..", "%2e%2e", "%2f", "site", "-old", "secret"}
RequestPaths ==
  {<<"/">> \o t : t \in UNION {[1..n -> PathParts] : n \in 0..(MaxParts - 1)}}

\* decodeURIComponent, piece by piece
DecodePart(x) ==
  CASE x = "%2e%2e" -> ".." [] x = "%2f" -> "/" [] OTHER -> x
DecodeURIComponent(t) == [i \in 1..Len(t) |-> DecodePart(t[i])]

\* the segments between the slashes of a text, empty ones included
RECURSIVE SplitSlash(_, _)
SplitSlash(t, cur) ==
  IF t = <<>> THEN <<cur>>
  ELSE IF Head(t) = "/" THEN <<cur>> \o SplitSlash(Tail(t), <<>>)
  ELSE SplitSlash(Tail(t), Append(cur, Head(t)))

\* path.normalize for an absolute path: empty segments go, a dot-dot
\* segment takes the segment before it away (none at the root)
RECURSIVE Normalize(_, _)
Normalize(segs, acc) ==
  IF segs = <<>> THEN acc
  ELSE IF Head(segs) = <<>> THEN Normalize(Tail(segs), acc)
  ELSE IF Head(segs) = <<"..">>
  THEN Normalize(Tail(segs),
                 IF acc = <<>> THEN acc ELSE SubSeq(acc, 1, Len(acc) - 1))
  ELSE Normalize(Tail(segs), Append(acc, Head(segs)))

\* path.join(dir, text) for an absolute directory
PathJoin(dir, t) ==
  LET segs == Normalize(SplitSlash(t, <<>>), dir)
  IN [segs |-> segs,
      slash |-> t # <<>> /\ t[Len(t)] = "/" /\ segs # <<>>]

\* the text of a location
RECURSIVE PathText(_)
PathText(segs) ==
  IF segs = <<>> THEN <<>>
  ELSE <<"/">> \o Head(segs) \o PathText(Tail(segs))
LocationText(l) ==
  IF l.segs = <<>> THEN <<"/">>
  ELSE PathText(l.segs) \o (IF l.slash THEN <<"/">> ELSE <<>>)

\* a faulty check: nothing is refused
InsideDir_Never(text, dir) == TRUE

\* site-builder.js:26 filePath.startsWith(dir), on the texts
InsideDir(text, dir) == StartsWith(text, PathText(dir))

\* the disk: the site directory /data/site with its index.html, a sibling
\* directory /data/site-old with an index.html and a file, and a file of the
\* parent directory
DiskSite == << <<"data">>, <<"site">> >>
DiskFiles ==
  { << <<"data">>, <<"site">>, <<"index.html">> >>,
    << <<"data">>, <<"site", "-old">>, <<"index.html">> >>,
    << <<"data">>, <<"site", "-old">>, <<"secret">> >>,
    << <<"data">>, <<"secret">> >> }
DiskPlaceholder == << <<"app">>, <<"src">>, <<"public">>, <<"placeholder.html">> >>

\* fs.existsSync(p) && fs.statSync(p).isFile(): a text that ends with a
\* slash names no file
IsFile(l) == ~l.slash /\ l.segs \in DiskFiles

\* site-builder.js:8-72 serveStaticSite(dir, req, res) on that disk, which
\* holds no 404.html: 403, the file, the index.html of the directory, the
\* .html file, the placeholder page
ServeStaticPath(dir, path) ==
  LET reqPath  == DecodeURIComponent(path)
      filePath == PathJoin(dir, IF reqPath = <<"/">> THEN <<"index.html">>
                                ELSE reqPath)
      dirIndex == [segs |-> Append(filePath.segs, <<"index.html">>),
                   slash |-> FALSE]
      htmlPath == IF filePath.slash \/ filePath.segs = <<>>
                  THEN [segs |-> Append(filePath.segs, <<".html">>),
                        slash |-> FALSE]
                  ELSE [segs |-> [filePath.segs EXCEPT
                                    ![Len(filePath.segs)] = Append(@, ".html")],
                        slash |-> FALSE]
      Sent(code, f) == [Static("site", FALSE) EXCEPT !.code = code, !.file = f]
  IN IF ~InsideDir(LocationText(filePath), dir) THEN Text(403)
     ELSE IF IsFile(filePath) THEN Sent(200, filePath.segs)
     ELSE IF IsFile(dirIndex) THEN Sent(200, dirIndex.segs)
     ELSE IF IsFile(htmlPath) THEN Sent(200, htmlPath.segs)
     ELSE Sent(200, DiskPlaceholder)

\* a request for a static file of the site is answered
StaticLookup(path) ==
  /\ ev = NoEv
  /\ ev' = [NoEv EXCEPT !.delivered =
              {[req |-> [ws |-> FALSE, method |-> "GET", host |-> Domain,
                         path |-> path],
                resp |-> ServeStaticPath(DiskSite, path)]}]
  /\ UNCHANGED <<lifeVars, exhausted, cap, siteVars, fwd, px, sd, tk, fsys,
                 dash, rt>>

NextLookup == \E path \in RequestPaths : StaticLookup(path)

SpecLookup == InitBody /\ [][NextLookup]_vars

\* C38 as stated: serveStaticSite never sends a file located outside the
\* site directory it was given, the placeholder page apart.
C38_StaysInside ==
  \A d \in ev.delivered :
    (d.resp.kind = "static" /\ d.resp.file # DiskPlaceholder) =>
      /\ Len(d.resp.file) > Len(DiskSite)
      /\ SubSeq(d.resp.file, 1, Len(DiskSite)) = DiskSite

\* the part that holds: no file is sent from a directory whose path does not
\* begin with the text of the site directory's path
C38_ParentRefused ==
  \A d \in ev.delivered :
    d.resp.kind = "static" => d.resp.file # << <<"data">>, <<"secret">> >>

\* the delays of the first to the fifth restart, in ms
BackoffTable == <<2000, 4000, 8000, 16000, 30000>>

\* C39: the crash that brings the crash counter to n (n = 1..5) schedules the
\* automatic restart after 2 s, 4 s, 8 s, 16 s and 30 s: that is the delay
\* of the timer set in the step of the crash.
C39_Backoff ==
  ev.crash = "scheduled" =>
    /\ crashCount \in 1..5
    /\ ev.delay = BackoffTable[crashCount]
    /\ \E t \in TimerIds :
         pc[t] = "pending" /\ remaining[t] = BackoffTable[crashCount]

\* the fifth crash of a window: the restart is set 30 s ahead
C39_Witness ==
  /\ ev.crash = "scheduled"
  /\ crashCount = 5
  /\ ev.delay = 30000

\* termination signals, with progress for the start sequence of the gateway
\* (its config sync returns and its readiness wait has a deadline) and none
\* assumed for the git commands of the dev-site save, which have no timeout
\* (helpers.js:37-60)
SpecShutdownLive ==
  /\ InitShutdown
  /\ [][NextShutdown]_vars
  /\ WF_vars(\E t \in Tasks : Starting(t))

\* some signal was delivered
SignalReceived == \E i \in SignalIds : sd.sig[i] # "none"

\* C40 as stated: once SIGTERM or SIGINT is received the wrapper process
\* exits, whether or not the dev-site save ever completes.
C40_ExitsAfterSignal == SignalReceived ~> sd.exited

\* the part that holds: a SIGTERM ends the process in the step it is
\* delivered
C40_SigtermExits ==
  (\E i \in SignalIds : sd.sig[i] = "SIGTERM") => sd.exited

====
